---- MODULE Spec2Model ----
(***************************************************************************)
(* Model of the OCR menu ingestion pipeline of table1837-tavern-app:       *)
(*   server/src/routes/ocr.ts          (POST /api/ocr/process, parsers)    *)
(*   server/src/services/database.ts   (bulkUpsertMenuItems, logMenuUpdate)*)
(*   server/src/middleware/errorHandler.ts (errorHandler, createError)     *)
(*   server/src/index.ts               (alertWebhook, lines 139-160)       *)
(*   server/src/index.ts               (route mounting, lines 63-64)       *)
(*   server/src/middleware/auth.ts     (authMiddleware)                    *)
(*   client api (unnamed/part_000)     (ocrApi.processImage timeout,       *)
(*                                      authApi, 401 interceptor)          *)
(*   client/src/store/authStore.ts     (login, logout, checkAuth)          *)
(*                                                                         *)
(* JavaScript strings are sequences of one-character strings.  An optional *)
(* value (undefined / null / absent property) is the empty tuple None, a   *)
(* present value v is the one-element tuple Some(v).                       *)
(***************************************************************************)
EXTENDS Integers, Sequences, FiniteSets, TLC

\* ------------------------------------------------------------------ bounds
NumReq == 1          \* ingestion requests of the sequential specification
NumConc == 2         \* ingestion requests in flight together
MaxClock == 2        \* largest value Date.now() takes
MaxRecords == 2      \* longest structured-records array of a payload
MaxLines == 2        \* most lines of a recognised text
MaxPriceLen == 3     \* longest generated price string

\* ------------------------------------------------------- JavaScript values
None == <<>>
Some(x) == <<x>>

\* JS truthiness of an optional string: undefined, null and "" are falsy.
Truthy(o) == o # None /\ o[1] # <<>>

\* a || b
Or(a, b) == IF Truthy(a) THEN a ELSE b

IsDigit(c) == c \in {"0", "1", "2", "3", "4", "5", "6", "7", "8", "9"}

IsSpace(c) == c \in {" ", "\t", "\r", "\n"}

DigitChars == <<"0", "1", "2", "3", "4", "5", "6", "7", "8", "9">>

DigitValue(c) == CHOOSE d \in 0..9 : DigitChars[d + 1] = c

\* Number -> decimal string, as a template literal `${n}` prints a
\* non-negative integer.
RECURSIVE Dec(_)
Dec(n) == IF n < 10 THEN <<DigitChars[n + 1]>>
          ELSE Dec(n \div 10) \o <<DigitChars[(n % 10) + 1]>>

\* String.prototype.trim
RECURSIVE TrimLeft(_)
TrimLeft(s) == IF s # <<>> /\ IsSpace(Head(s)) THEN TrimLeft(Tail(s)) ELSE s

RECURSIVE TrimRight(_)
TrimRight(s) == IF s # <<>> /\ IsSpace(s[Len(s)])
                THEN TrimRight(SubSeq(s, 1, Len(s) - 1)) ELSE s

Trim(s) == TrimRight(TrimLeft(s))

\* text.split('\n')
RECURSIVE SplitAcc(_, _, _)
SplitAcc(s, cur, acc) ==
    IF s = <<>> THEN Append(acc, cur)
    ELSE IF Head(s) = "\n" THEN SplitAcc(Tail(s), <<>>, Append(acc, cur))
    ELSE SplitAcc(Tail(s), Append(cur, Head(s)), acc)

Split(s) == SplitAcc(s, <<>>, <<>>)

\* lines.filter(line => line.trim().length > 0)
NonEmptyLines(ls) == SelectSeq(ls, LAMBDA l : Len(Trim(l)) > 0)

\* ---------------------------------------------- price pattern (ocr.ts:251)
\* /\$([0-9]+(?:\.[0-9]{2})?)/ : the leftmost "$" followed by a digit.
MatchesAt(s, p) == /\ p + 1 <= Len(s)
                   /\ s[p] = "$"
                   /\ IsDigit(s[p + 1])

HasPriceMatch(s) == \E p \in 1..Len(s) : MatchesAt(s, p)

MatchStart(s) == CHOOSE p \in 1..Len(s) :
                    /\ MatchesAt(s, p)
                    /\ \A q \in 1..(p - 1) : ~MatchesAt(s, q)

\* last index of the greedy digit run [0-9]+ that starts at p + 1
DigitsEnd(s, p) == CHOOSE e \in (p + 1)..Len(s) :
                      /\ \A k \in (p + 1)..e : IsDigit(s[k])
                      /\ (e = Len(s) \/ ~IsDigit(s[e + 1]))

\* the optional group (?:\.[0-9]{2})? directly after index e
HasCents(s, e) == /\ e + 3 <= Len(s)
                  /\ s[e + 1] = "."
                  /\ IsDigit(s[e + 2])
                  /\ IsDigit(s[e + 3])

\* priceMatch[1]
PriceGroup(s) ==
    LET p == MatchStart(s)
        e == DigitsEnd(s, p)
    IN  SubSeq(s, p + 1, IF HasCents(s, e) THEN e + 3 ELSE e)

\* value of a digit string
RECURSIVE DigitsValue(_)
DigitsValue(ds) == IF ds = <<>> THEN 0
                   ELSE 10 * DigitsValue(SubSeq(ds, 1, Len(ds) - 1))
                        + DigitValue(ds[Len(ds)])

\* parseFloat(priceMatch[1]); a price is kept in hundredths.
ParseFloatCents(g) ==
    IF Len(g) >= 3 /\ g[Len(g) - 2] = "."
    THEN 100 * DigitsValue(SubSeq(g, 1, Len(g) - 3))
         + DigitsValue(SubSeq(g, Len(g) - 1, Len(g)))
    ELSE 100 * DigitsValue(g)

\* trimmedLine.replace(/\$[0-9]+(?:\.[0-9]{2})?.*$/, '').trim()
NameWithoutPrice(s) == Trim(SubSeq(s, 1, MatchStart(s) - 1))

\* ------------------------------------------------ parsePrice (ocr.ts:289)
\* A JSON value given as price: [t |-> "undef" | "num" | "str", n, s].
\* Numbers are kept in hundredths.
JsUndef == [t |-> "undef", n |-> 0, s |-> <<>>]
JsNum(n) == [t |-> "num", n |-> n, s |-> <<>>]
JsStr(s) == [t |-> "str", n |-> 0, s |-> s]

\* the number JSON.parse returns for a literal beyond the double range
\* (1e999): typeof 'number', not finite; above every finite number here
Infinity == 1000000000

\* Number.isFinite
IsFinite(n) == n # Infinity /\ n # -Infinity

\* priceStr.toString().replace(/[^0-9.]/g, '')
Cleaned(s) == SelectSeq(s, LAMBDA c : IsDigit(c) \/ c = ".")

\* longest prefix of s made of digits
RECURSIVE DigitRun(_)
DigitRun(s) == IF s # <<>> /\ IsDigit(Head(s))
               THEN <<Head(s)>> \o DigitRun(Tail(s)) ELSE <<>>

\* parseFloat of a string of digits and periods, in hundredths; None is NaN.
\* Fractions are read to two digits.
ParseFloat(c) ==
    LET ip == DigitRun(c)
        rest == SubSeq(c, Len(ip) + 1, Len(c))
        fp == IF rest # <<>> /\ Head(rest) = "." THEN DigitRun(Tail(rest))
              ELSE <<>>
        f2 == IF Len(fp) = 0 THEN 0
              ELSE IF Len(fp) = 1 THEN 10 * DigitValue(fp[1])
              ELSE 10 * DigitValue(fp[1]) + DigitValue(fp[2])
    IN  IF ip = <<>> /\ fp = <<>> THEN None
        ELSE Some(100 * DigitsValue(ip) + f2)

\* a bug: the falsy test comes first, so the number 0 counts as absent
parsePriceFalsyFirst(priceStr) ==
    IF priceStr.t = "undef" \/ (priceStr.t = "str" /\ priceStr.s = <<>>)
       \/ (priceStr.t = "num" /\ priceStr.n = 0) THEN None
    ELSE IF priceStr.t = "num" THEN Some(priceStr.n)
    ELSE ParseFloat(Cleaned(priceStr.s))

parsePrice(priceStr) ==
    IF priceStr.t = "num" THEN Some(priceStr.n)
    ELSE IF priceStr.t = "undef" \/ priceStr.s = <<>> THEN None
    ELSE ParseFloat(Cleaned(priceStr.s))

\* -------------------------------------------- identifiers (ocr.ts:213,264)
\* a bug: the position of the item is left out of its identifier
MakeIdWithoutIndex(menuType, kind, now, index) ==
    <<menuType, "_", kind, "_">> \o Dec(now)

\* `${menuType}_ocr_${Date.now()}_${index}` and
\* `${menuType}_manual_${Date.now()}_${index}`
MakeId(menuType, kind, now, index) ==
    <<menuType, "_", kind, "_">> \o Dec(now) \o <<"_">> \o Dec(index)

\* ---------------------------------------------- parseTextMenu (ocr.ts:241)
\* One pass of lines.forEach; clk[i] is the value Date.now() returns while
\* line i is handled, cur is currentItem (None when null).
TextItem(line, index, now, menuType) ==
    [id |-> MakeId(menuType, "manual", now, index),
     name |-> NameWithoutPrice(line),
     description |-> None,
     price |-> Some(ParseFloatCents(PriceGroup(line))),
     category |-> menuType,
     subcategory |-> None,
     available |-> TRUE,
     tags |-> <<>>]

\* a bug: every line with a dollar amount counts, whatever its length
IsPriceLineAnyLength(trimmedLine) == HasPriceMatch(trimmedLine)

\* priceMatch && trimmedLine.length > 5
IsPriceLine(trimmedLine) == HasPriceMatch(trimmedLine) /\ Len(trimmedLine) > 5

\* a bug: the lines of a description are joined without a separator
AppendDescriptionUnspaced(cur, trimmedLine) ==
    [cur EXCEPT !.description =
        Some((IF Truthy(cur.description) THEN cur.description[1] ELSE <<>>)
             \o trimmedLine)]

\* currentItem.description = (currentItem.description ?
\*     currentItem.description + ' ' : '') + trimmedLine
AppendDescription(cur, trimmedLine) ==
    [cur EXCEPT !.description =
        Some((IF Truthy(cur.description) THEN cur.description[1] \o <<" ">>
              ELSE <<>>) \o trimmedLine)]

\* a bug: currentItem is pushed whatever its name
FlushUnnamed(items, cur) ==
    IF cur # None THEN Append(items, cur[1]) ELSE items

\* push currentItem when it is set and its name is non-empty
Flush(items, cur) ==
    IF cur # None /\ cur[1].name # <<>> THEN Append(items, cur[1]) ELSE items

RECURSIVE TextForEach(_, _, _, _, _, _)
TextForEach(lines, i, items, cur, clk, menuType) ==
    IF i > Len(lines) THEN Flush(items, cur)
    ELSE LET trimmedLine == Trim(lines[i])
         IN  IF IsPriceLine(trimmedLine)
             THEN TextForEach(lines, i + 1, Flush(items, cur),
                              Some(TextItem(trimmedLine, i - 1, clk[i], menuType)),
                              clk, menuType)
             ELSE IF cur # None /\ Len(trimmedLine) > 10
                     /\ ~HasPriceMatch(trimmedLine)
             THEN TextForEach(lines, i + 1, items,
                              Some(AppendDescription(cur[1], trimmedLine)),
                              clk, menuType)
             ELSE TextForEach(lines, i + 1, items, cur, clk, menuType)

parseTextMenu(text, menuType, clk) ==
    TextForEach(NonEmptyLines(Split(text)), 1, <<>>, None, clk, menuType)

\* ---------------------------------------------- determineTags (ocr.ts:300)
UpperChars == <<"A", "B", "C", "D", "E", "F", "G", "H", "I", "J", "K", "L", "M",
                "N", "O", "P", "Q", "R", "S", "T", "U", "V", "W", "X", "Y", "Z">>

LowerChars == <<"a", "b", "c", "d", "e", "f", "g", "h", "i", "j", "k", "l", "m",
                "n", "o", "p", "q", "r", "s", "t", "u", "v", "w", "x", "y", "z">>

\* the lower-case letter of each upper-case letter
LowerOf ==
    [u \in {UpperChars[k] : k \in 1..26} |->
        LowerChars[CHOOSE k \in 1..26 : UpperChars[k] = u]]

\* a bug: the text is searched as it is written
ToLowerCaseOff(s) == s

\* String.prototype.toLowerCase on the letters A-Z
ToLowerCase(s) ==
    [i \in 1..Len(s) |-> IF s[i] \in DOMAIN LowerOf THEN LowerOf[s[i]] ELSE s[i]]

\* String.prototype.includes
Includes(s, w) ==
    \E p \in 1..(Len(s) - Len(w) + 1) : \A j \in 1..Len(w) : s[p + j - 1] = w[j]

\* item.name + ' ' + (item.description || ''): an absent name is
\* concatenated as the text "undefined"
ItemText(item) ==
    ToLowerCase(
        (IF item.name = None THEN <<"u", "n", "d", "e", "f", "i", "n", "e", "d">>
         ELSE item.name[1])
        \o <<" ">>
        \o (IF Truthy(item.description) THEN item.description[1] ELSE <<>>))

\* a bug: every tag is pushed
PushAlways(cond, tag) == <<tag>>

\* tags.push(tag) when the condition holds
PushIf(cond, tag) == IF cond THEN <<tag>> ELSE <<>>

determineTags(item, menuType) ==
    LET itemText == ItemText(item)
        has(w) == Includes(itemText, w)
    IN  PushIf(menuType = "signature_cocktails", "signature")
        \o PushIf(menuType = "signature_cocktails"
                  /\ (has(<<"p", "r", "e", "m", "i", "u", "m">>)
                      \/ has(<<"t", "o", "p", " ", "s", "h", "e", "l", "f">>)),
                  "premium")
        \o PushIf(menuType = "wine_list"
                  /\ (has(<<"r", "e", "s", "e", "r", "v", "e">>)
                      \/ has(<<"v", "i", "n", "t", "a", "g", "e">>)),
                  "reserve")
        \o PushIf(menuType = "wine_list" /\ has(<<"r", "e", "d">>), "red")
        \o PushIf(menuType = "wine_list" /\ has(<<"w", "h", "i", "t", "e">>), "white")
        \o PushIf(menuType = "wine_list"
                  /\ (has(<<"s", "p", "a", "r", "k", "l", "i", "n", "g">>)
                      \/ has(<<"c", "h", "a", "m", "p", "a", "g", "n", "e">>)),
                  "sparkling")
        \o PushIf(has(<<"f", "e", "a", "t", "u", "r", "e", "d">>)
                  \/ has(<<"s", "p", "e", "c", "i", "a", "l">>), "featured")
        \o PushIf(has(<<"n", "e", "w">>)
                  \/ has(<<"l", "i", "m", "i", "t", "e", "d">>), "limited")

\* -------------------------------------------- parseOCRResults (ocr.ts:201)
\* A structured record is None (JSON null) or Some of
\* [name, title, description, desc, price, category].
\* a bug: the placeholder carries the 0-based index
PlaceholderNameZeroBased(index) == <<"I", "t", "e", "m", " ">> \o Dec(index)

\* `Item ${index + 1}`
PlaceholderName(index) == <<"I", "t", "e", "m", " ">> \o Dec(index + 1)

StructuredItem(item, index, now, menuType) ==
    [id |-> MakeId(menuType, "ocr", now, index),
     name |-> Or(Or(item.name, item.title), Some(PlaceholderName(index)))[1],
     description |-> LET d == Or(item.description, item.desc)
                     IN  IF Truthy(d) THEN d ELSE None,
     price |-> parsePrice(item.price),
     category |-> menuType,
     subcategory |-> IF Truthy(item.category) THEN item.category ELSE None,
     available |-> TRUE,
     tags |-> determineTags(item, menuType)]

\* structuredData.forEach: reading item.name of a null element throws a
\* TypeError that ends the loop; the catch of line 233 keeps what was pushed.
RECURSIVE StructuredForEach(_, _, _, _, _)
StructuredForEach(arr, i, items, clk, menuType) ==
    IF i > Len(arr) THEN items
    ELSE IF arr[i] = None THEN items
    ELSE StructuredForEach(arr, i + 1,
             Append(items, StructuredItem(arr[i][1], i - 1, clk[i], menuType)),
             clk, menuType)

\* A JSON value given as structured_data or items:
\* [t |-> "undef" | "other" | "array", a]; "other" is a truthy non-array.
JsAbsent == [t |-> "undef", a |-> <<>>]
JsOther == [t |-> "other", a |-> <<>>]
JsArray(a) == [t |-> "array", a |-> a]

\* ocrData.structured_data || ocrData.items || []   (an array is truthy)
StructuredData(ocrData) ==
    IF ocrData.structured_data.t # "undef" THEN ocrData.structured_data
    ELSE IF ocrData.items.t # "undef" THEN ocrData.items
    ELSE JsArray(<<>>)

\* ocrData.text || ocrData.extracted_text || ''
ExtractedText(ocrData) ==
    LET t == Or(ocrData.text, ocrData.extracted_text)
    IN  IF Truthy(t) THEN t[1] ELSE <<>>

UseStructured(ocrData) ==
    StructuredData(ocrData).t = "array" /\ Len(StructuredData(ocrData).a) > 0

\* the local `items` when the try block of parseOCRResults is left;
\* ocrData = None is a JSON null payload: ocrData.text throws at once.
ExtractedItems(ocrData, menuType, clk) ==
    IF ocrData = None THEN <<>>
    ELSE IF UseStructured(ocrData[1])
    THEN StructuredForEach(StructuredData(ocrData[1]).a, 1, <<>>, clk, menuType)
    ELSE parseTextMenu(ExtractedText(ocrData[1]), menuType, clk)

\* a bug: every draft is returned, whatever its name
NameFilterOff(items) == items

\* items.filter(item => item.name && item.name.length > 2)
NameFilter(items) == SelectSeq(items, LAMBDA it : it.name # <<>> /\ Len(it.name) > 2)

parseOCRResults(ocrData, menuType, clk) ==
    NameFilter(ExtractedItems(ocrData, menuType, clk))

\* ---------------------------------------------------- request validation
\* multer limits.fileSize (ocr.ts:15)
FileSizeLimit == 10485760

\* allowedMimes (ocr.ts:18)
allowedMimes == {"image/jpeg", "image/png", "image/webp", "image/tiff"}

\* own keys of MENU_TYPE_MAPPING (ocr.ts:28)
MenuTypes == {"wine_list", "featured_menu", "signature_cocktails", "tavern_menu"}

\* MENU_TYPE_MAPPING is an object literal: a lookup by a key it does not own
\* falls through to Object.prototype, whose members are truthy.
ObjectPrototypeKeys == {"constructor", "toString", "valueOf", "hasOwnProperty",
                        "isPrototypeOf", "propertyIsEnumerable",
                        "toLocaleString", "__proto__"}

\* MENU_TYPE_MAPPING[menuType] is truthy
MENU_TYPE_MAPPING(menuType) == menuType \in MenuTypes \cup ObjectPrototypeKeys

\* createError(message, statusCode) (errorHandler.ts:51)
createError(message, statusCode) ==
    [message |-> message, statusCode |-> Some(statusCode)]

\* an Error thrown by a library or the runtime: no statusCode property
PlainError(message) == [message |-> message, statusCode |-> None]

\* upload.single('image'): fileFilter (ocr.ts:17) and limits (ocr.ts:14);
\* file is None or Some([mimetype, size]).  The result is the error multer
\* hands to next(), or None.
MulterError(file) ==
    IF file = None THEN None
    ELSE IF file[1].mimetype \notin allowedMimes
    THEN Some(PlainError("Invalid file type. Only JPEG, PNG, WebP, and TIFF are allowed."))
    ELSE IF file[1].size > FileSizeLimit
    THEN Some(PlainError("File too large"))
    ELSE None

\* the checks of the handler before its try block (ocr.ts:41-49);
\* menuType is None (field missing) or Some(string)
HandlerError(file, menuType) ==
    IF file = None THEN Some(createError("No image file provided", 400))
    ELSE IF menuType = None \/ menuType[1] = "" \/ ~MENU_TYPE_MAPPING(menuType[1])
    THEN Some(createError("Invalid or missing menu type", 400))
    ELSE None

\* ------------------------------------------------------------- responses
\* suggestions of the soft failure (ocr.ts:121)
Suggestions == <<"Ensure the image is clear and well-lit",
                 "Make sure text is not obscured or rotated",
                 "Try a higher resolution image">>

NoResponse == [status |-> 0, success |-> FALSE, message |-> "",
               suggestions |-> <<>>, extractedText |-> None,
               itemsProcessed |-> 0, itemsSaved |-> 0, detailed |-> FALSE]

\* res.json of the soft failure (ocr.ts:117)
SoftFailure(ocrData) ==
    [NoResponse EXCEPT
        !.status = 200,
        !.message = "No menu items could be extracted from the image",
        !.extractedText = Some(IF Truthy(ocrData.text) THEN ocrData.text[1]
                               ELSE <<>>),
        !.suggestions = Suggestions]

\* res.json of the success (ocr.ts:164)
SuccessResponse(parsedItems, savedItems) ==
    [NoResponse EXCEPT
        !.status = 200,
        !.success = TRUE,
        !.message = "Successfully processed menu items",
        !.itemsProcessed = Len(parsedItems),
        !.itemsSaved = Len(savedItems)]

\* err.statusCode || 500 (errorHandler.ts:10)
StatusOf(err) == IF err.statusCode # None /\ err.statusCode[1] # 0
                 THEN err.statusCode[1] ELSE 500

\* res.status(statusCode).json(response) (errorHandler.ts:39-47)
ErrorResponse(err, production) ==
    [NoResponse EXCEPT
        !.status = StatusOf(err),
        !.message = IF err.message = "" THEN "Internal Server Error"
                     ELSE err.message,
        !.detailed = ~production]

\* ------------------------------------------------------------ input sets
Requests == 1..NumReq

Concurrent == 1..NumConc

\* uploaded file: absent, or [mimetype, size in bytes]
FileInputs ==
    {None} \cup
    {Some([mimetype |-> m, size |-> z]) :
        m \in {"image/jpeg", "image/gif"}, z \in {204800, 15728640}}

\* declared menu type: missing field, or a string
MenuTypeInputs ==
    {None, Some(""), Some("wine_list"), Some("tavern_menu"), Some("brunch"),
     Some("constructor")}

NoRecord == [name |-> None, title |-> None, description |-> None,
             desc |-> None, price |-> JsUndef, category |-> None]

Named(n) == [NoRecord EXCEPT !.name = Some(n)]

NoPayload == [text |-> None, extracted_text |-> None,
              structured_data |-> JsAbsent, items |-> JsAbsent]

\* recognition payloads of the request pipeline: JSON null, an empty object,
\* a one-line text, and structured arrays
PipelinePayloads ==
    {None,
     Some(NoPayload),
     Some([NoPayload EXCEPT !.text = Some(<<"A", "l", "e", " ", "$", "5">>)]),
     Some([NoPayload EXCEPT !.text = Some(<<"n", "o", " ", "p", "r", "i", "c", "e">>)]),
     Some([NoPayload EXCEPT !.structured_data = JsArray(<<None>>)]),
     Some([NoPayload EXCEPT !.structured_data =
              JsArray(<<Some(Named(<<"P", "o", "r", "t">>))>>)]),
     Some([NoPayload EXCEPT !.items =
              JsArray(<<Some(Named(<<"a", "b">>)),
                        Some(Named(<<"S", "t", "o", "u", "t">>))>>)])}

\* non-decreasing readings of Date.now(), one per element or line, from t on
ClockReads(t, n) ==
    {c \in [1..n -> t..MaxClock] : \A i \in 1..(n - 1) : c[i] <= c[i + 1]}

\* elements or lines a payload makes the parser walk through
WalkLen(ocrData) ==
    IF ocrData = None THEN 0
    ELSE IF UseStructured(ocrData[1]) THEN Len(StructuredData(ocrData[1]).a)
    ELSE Len(NonEmptyLines(Split(ExtractedText(ocrData[1]))))

\* ------------------------------------------------------------------ state
VARIABLES
    req,        \* per request: position in the handler and what it did
    store,      \* table menu_items
    audits,     \* table menu_updates
    now,        \* Date.now()
    env,        \* process.env: DEPLOY_WEBHOOK_URL set, NODE_ENV = production
    parser,     \* one call of parseOCRResults: its arguments and its result
    auth,       \* one run of authMiddleware: the request, table users, the outcome
    loop,       \* lines.forEach of parseTextMenu: lines, index, items, currentItem
    walk,       \* structuredData.forEach of parseOCRResults: array, index, items
    tagger,     \* one call of determineTags: its arguments and its result
    pricer,     \* one call of parsePrice: its argument and its result
    authStore   \* the client's auth store, localStorage and its calls in flight

vars == <<req, store, audits, now, env, parser, auth, loop,
         walk, tagger, pricer, authStore>>

NewRequest ==
    [pc |-> "new", file |-> None, menuTypeIn |-> None, menuType |-> "",
     ocrOutcome |-> "none", ocrData |-> None, parsedItems |-> <<>>,
     savedItems |-> <<>>, upsertOutcome |-> "none", auditOutcome |-> "none",
     overwrote |-> FALSE, err |-> None, res |-> NoResponse,
     sharpCalls |-> 0, ocrCalls |-> 0, parseCalls |-> 0, upsertCalls |-> 0,
     auditCalls |-> 0, deployCalls |-> 0, alertCalls |-> 0,
     client |-> "waiting", deployOutcome |-> "none"]

\* parser state while no call of parseOCRResults is looked at
NoCall == [phase |-> "off", ocrData |-> None, menuType |-> "",
           extracted |-> <<>>, result |-> <<>>]

\* auth state while no run of authMiddleware is looked at
NoAuth == [phase |-> "off", route |-> "", header |-> FALSE,
           token |-> [kind |-> "malformed", sub |-> ""], users |-> <<>>,
           status |-> 0, error |-> "", user |-> None]

\* loop state while no call of parseTextMenu is looked at
NoLoop == [phase |-> "off", lines |-> <<>>, index |-> 0, items |-> <<>>,
           currentItem |-> None, menuType |-> ""]

\* walk state while no structured array is looked at
NoWalk == [phase |-> "off", arr |-> <<>>, index |-> 0, items |-> <<>>,
           menuType |-> "", result |-> <<>>]

\* tagger state while no call of determineTags is looked at
NoTagger == [phase |-> "off", item |-> NoRecord, menuType |-> "", tags |-> <<>>]

\* pricer state while no call of parsePrice is looked at
NoPricer == [phase |-> "off", priceStr |-> JsUndef, result |-> None]

\* the calls of the auth store while none has been made
NoCalls == [checkAuth |-> [pc |-> "idle", token |-> None],
            login |-> [pc |-> "idle"],
            logout |-> [pc |-> "idle"]]

\* client state while no browser session is looked at
NoAuthStore == [phase |-> "off", user |-> None, token |-> None,
                isLoading |-> FALSE, error |-> None,
                localStorage |-> [auth_token |-> None, user_data |-> None,
                                  refresh_token |-> None],
                calls |-> NoCalls]

\* the variables of the single-function specifications at rest
AtRest == /\ walk = NoWalk
          /\ tagger = NoTagger
          /\ pricer = NoPricer
          /\ authStore = NoAuthStore

InitOf(R) ==
    /\ AtRest
    /\ loop = NoLoop
    /\ auth = NoAuth
    /\ req = [r \in R |-> NewRequest]
    /\ store = {}
    /\ audits = <<>>
    /\ now = 1
    /\ env \in [deployUrl : BOOLEAN, production : BOOLEAN]
    /\ parser = NoCall

Init == InitOf(Requests)

InitConc == InitOf(Concurrent)

Ids(items) == {items[i].id : i \in 1..Len(items)}

\* throw inside asyncHandler, outside the try block: next(err)
ToErrorHandler(q, e) ==
    [q EXCEPT !.pc = "error", !.err = Some(e)]

\* throw inside the try block of the handler: the catch of ocr.ts:181
ToCatch(q, e) == [q EXCEPT !.pc = "catch", !.err = Some(e)]

\* alertWebhook(message, 'critical')
alertWebhook(q) == [q EXCEPT !.alertCalls = q.alertCalls + 1]

\* --------------------------------------------------------------- actions
\* multer and the checks before the try block (ocr.ts:38-58)
Upload(r) ==
    /\ req[r].pc = "new"
    /\ \E file \in FileInputs, menuType \in MenuTypeInputs :
         LET q == [req[r] EXCEPT !.file = file, !.menuTypeIn = menuType]
         IN  req' = [req EXCEPT ![r] =
                IF MulterError(file) # None
                THEN ToErrorHandler(q, MulterError(file)[1])
                ELSE IF HandlerError(file, menuType) # None
                THEN ToErrorHandler(q, HandlerError(file, menuType)[1])
                ELSE [q EXCEPT !.pc = "sharp", !.menuType = menuType[1]]]
    /\ UNCHANGED <<store, audits, now, env, parser, auth, loop,
                   walk, tagger, pricer, authStore>>

\* await sharp(...).toBuffer() (ocr.ts:62-70)
Preprocess(r) ==
    /\ req[r].pc = "sharp"
    /\ \E ok \in BOOLEAN :
         LET q == [req[r] EXCEPT !.sharpCalls = @ + 1]
         IN  req' = [req EXCEPT ![r] =
                IF ok THEN [q EXCEPT !.pc = "fetch"]
                ELSE ToCatch(q, PlainError("Input buffer contains unsupported image format"))]
    /\ UNCHANGED <<store, audits, now, env, parser, auth, loop,
                   walk, tagger, pricer, authStore>>

\* await fetch(config.ocr.endpoint, ...) (ocr.ts:73-87)
Recognize(r) ==
    /\ req[r].pc = "fetch"
    /\ \E outcome \in {"neterr", "notok", "ok"} :
         LET q == [req[r] EXCEPT !.ocrCalls = @ + 1, !.ocrOutcome = outcome]
         IN  req' = [req EXCEPT ![r] =
                IF outcome = "neterr" THEN ToCatch(q, PlainError("fetch failed"))
                ELSE IF outcome = "notok" THEN [q EXCEPT !.pc = "notok"]
                ELSE [q EXCEPT !.pc = "json"]]
    /\ UNCHANGED <<store, audits, now, env, parser, auth, loop,
                   walk, tagger, pricer, authStore>>

\* if (!ocrResponse.ok) { ... } (ocr.ts:89-103)
NotOk(r) ==
    /\ req[r].pc = "notok"
    /\ \E bodyRead \in BOOLEAN :
         req' = [req EXCEPT ![r] =
            IF bodyRead
            THEN ToCatch(alertWebhook(req[r]), createError("OCR processing failed", 500))
            ELSE ToCatch(req[r], PlainError("terminated"))]
    /\ UNCHANGED <<store, audits, now, env, parser, auth, loop,
                   walk, tagger, pricer, authStore>>

\* await ocrResponse.json(), parseOCRResults and the soft failure
\* (ocr.ts:105-127)
Parse(r) ==
    /\ req[r].pc = "json"
    /\ \/ /\ req' = [req EXCEPT ![r] =
                ToCatch(req[r], PlainError("Unexpected token < in JSON at position 0"))]
          /\ now' = now
       \/ \E ocrData \in PipelinePayloads :
          \E clk \in ClockReads(now, WalkLen(ocrData)) :
            LET items == parseOCRResults(ocrData, req[r].menuType, clk)
                q == [req[r] EXCEPT !.ocrData = ocrData, !.parsedItems = items,
                                    !.parseCalls = @ + 1]
            IN  /\ req' = [req EXCEPT ![r] =
                      IF Len(items) > 0 THEN [q EXCEPT !.pc = "upsert"]
                      ELSE IF ocrData = None
                      THEN ToCatch(q, PlainError("Cannot read properties of null (reading 'text')"))
                      ELSE [q EXCEPT !.pc = "done", !.res = SoftFailure(ocrData[1])]]
                /\ now' = IF WalkLen(ocrData) = 0 THEN now
                          ELSE clk[WalkLen(ocrData)]
    /\ UNCHANGED <<store, audits, env, parser, auth, loop,
                   walk, tagger, pricer, authStore>>

\* supabase.from('menu_items').upsert(items, { onConflict: 'id' }): a row
\* whose id is in the table is replaced, the others are inserted
UpsertRows(table, items) ==
    {row \in table : row.id \notin Ids(items)} \cup
    {items[i] : i \in 1..Len(items)}

\* the menu_updates row of logMenuUpdate (database.ts:120-125, 157-160)
AuditRecord(items, menuType) ==
    [menu_type |-> menuType, operation |-> "bulk_update",
     items_count |-> Len(items),
     items |-> [i \in 1..Len(items) |-> items[i].id]]

\* messages of the error object the storage client returns for a failed write
StorageErrors ==
    {"duplicate key value violates unique constraint",
     "new row violates row-level security policy"}

\* a bug: the catch of bulkUpsertMenuItems logs and does not rethrow
bulkUpsertFailedSwallowed(q, message) ==
    [q EXCEPT !.upsertOutcome = "failed", !.pc = "audit"]

\* if (error) throw error; catch: log and rethrow (database.ts:117, 128-131)
bulkUpsertFailed(q, message) ==
    ToCatch([q EXCEPT !.upsertOutcome = "failed"], PlainError(message))

\* DatabaseService.bulkUpsertMenuItems up to its first await
\* (database.ts:109-118)
Upsert(r) ==
    /\ req[r].pc = "upsert"
    /\ \E outcome \in {"ok"} \cup StorageErrors :
         LET q == [req[r] EXCEPT !.upsertCalls = @ + 1]
         IN  IF outcome = "ok"
             THEN /\ store' = UpsertRows(store, q.parsedItems)
                  /\ req' = [req EXCEPT ![r] =
                        [q EXCEPT !.pc = "audit", !.upsertOutcome = "ok",
                                  !.savedItems = q.parsedItems,
                                  !.overwrote =
                                      \E row \in store : row.id \in Ids(q.parsedItems)]]
             ELSE /\ store' = store
                  /\ req' = [req EXCEPT ![r] = bulkUpsertFailed(q, outcome)]
    /\ UNCHANGED <<audits, now, env, parser, auth, loop,
                   walk, tagger, pricer, authStore>>

\* a bug: logMenuUpdate rethrows the error of the insert
logMenuUpdateThrows(q, ok) ==
    IF ok THEN [q EXCEPT !.auditCalls = @ + 1, !.auditOutcome = "ok"]
    ELSE ToCatch([q EXCEPT !.auditCalls = @ + 1, !.auditOutcome = "failed"],
                 PlainError("insert into menu_updates failed"))

\* logMenuUpdate: the insert, and a catch that logs and does not throw
\* (database.ts:153-168)
logMenuUpdate(q, ok) ==
    [q EXCEPT !.auditCalls = @ + 1,
              !.auditOutcome = IF ok THEN "ok" ELSE "failed"]

\* logMenuUpdate, the return of bulkUpsertMenuItems and the handler up to
\* its next await or its response (database.ts:120-127; ocr.ts:136-147,
\* 164-179)
Audit(r) ==
    /\ req[r].pc = "audit"
    /\ \E ok \in BOOLEAN :
         LET q == logMenuUpdate(req[r], ok)
         IN  /\ audits' = IF ok
                          THEN Append(audits, AuditRecord(q.parsedItems, q.menuType))
                          ELSE audits
             /\ req' = [req EXCEPT ![r] =
                   IF q.pc # "audit" THEN q
                   ELSE IF env.deployUrl THEN [q EXCEPT !.pc = "deploy"]
                   ELSE [q EXCEPT !.pc = "done",
                                  !.res = SuccessResponse(q.parsedItems, q.savedItems)]]
    /\ UNCHANGED <<store, now, env, parser, auth, loop,
                   walk, tagger, pricer, authStore>>

\* a bug: the failure of the deployment webhook leaves the inner try
DeployThrows(r) ==
    /\ req[r].pc = "deploy"
    /\ \E ok \in BOOLEAN :
         LET q == [req[r] EXCEPT !.deployCalls = @ + 1,
                                 !.deployOutcome = IF ok THEN "ok" ELSE "failed"]
         IN  req' = [req EXCEPT ![r] =
                IF ok
                THEN [q EXCEPT !.pc = "done",
                               !.res = SuccessResponse(q.parsedItems, q.savedItems)]
                ELSE ToCatch(q, PlainError("fetch failed"))]
    /\ UNCHANGED <<store, audits, now, env, parser, auth, loop,
                   walk, tagger, pricer, authStore>>

\* the deployment webhook, whose failure is caught and logged, and the
\* success response (ocr.ts:147-179)
Deploy(r) ==
    /\ req[r].pc = "deploy"
    /\ \E ok \in BOOLEAN :
         req' = [req EXCEPT ![r] =
            [@ EXCEPT !.pc = "done", !.deployCalls = @ + 1,
                      !.deployOutcome = IF ok THEN "ok" ELSE "failed",
                      !.res = SuccessResponse(req[r].parsedItems, req[r].savedItems)]]
    /\ UNCHANGED <<store, audits, now, env, parser, auth, loop,
                   walk, tagger, pricer, authStore>>

\* a bug: the catch rethrows without alerting
CatchWithoutAlert(r) ==
    /\ req[r].pc = "catch"
    /\ req' = [req EXCEPT ![r] = [@ EXCEPT !.pc = "error"]]
    /\ UNCHANGED <<store, audits, now, env, parser, auth, loop,
                   walk, tagger, pricer, authStore>>

\* catch (error) { ...; await alertWebhook(...); throw error } (ocr.ts:181-197)
Catch(r) ==
    /\ req[r].pc = "catch"
    /\ req' = [req EXCEPT ![r] = [alertWebhook(req[r]) EXCEPT !.pc = "error"]]
    /\ UNCHANGED <<store, audits, now, env, parser, auth, loop,
                   walk, tagger, pricer, authStore>>

\* a bug: the error handler alerts whatever the status of the error
errorHandlerAlertsAll(r) ==
    /\ req[r].pc = "error"
    /\ req' = [req EXCEPT ![r] =
          [alertWebhook(req[r]) EXCEPT
              !.pc = "done",
              !.res = ErrorResponse(req[r].err[1], env.production)]]
    /\ UNCHANGED <<store, audits, now, env, parser, auth, loop,
                   walk, tagger, pricer, authStore>>

\* errorHandler (errorHandler.ts:9-48)
errorHandler(r) ==
    /\ req[r].pc = "error"
    /\ LET err == req[r].err[1]
           q == IF StatusOf(err) >= 500 THEN alertWebhook(req[r]) ELSE req[r]
       IN  req' = [req EXCEPT ![r] =
              [q EXCEPT !.pc = "done", !.res = ErrorResponse(err, env.production)]]
    /\ UNCHANGED <<store, audits, now, env, parser, auth, loop,
                   walk, tagger, pricer, authStore>>

\* the wall clock advances
Tick ==
    /\ now < MaxClock
    /\ now' = now + 1
    /\ UNCHANGED <<req, store, audits, env, parser, auth, loop,
                   walk, tagger, pricer, authStore>>

Next ==
    \/ \E r \in Requests : Upload(r)
    \/ \E r \in Requests : Preprocess(r)
    \/ \E r \in Requests : Recognize(r)
    \/ \E r \in Requests : NotOk(r)
    \/ \E r \in Requests : Parse(r)
    \/ \E r \in Requests : Upsert(r)
    \/ \E r \in Requests : Audit(r)
    \/ \E r \in Requests : Deploy(r)
    \/ \E r \in Requests : Catch(r)
    \/ \E r \in Requests : errorHandler(r)

\* one request at a time; the clock is read by Parse alone, which lets it
\* have advanced by any amount since it was last read
Spec == Init /\ [][Next]_vars

NextConc ==
    \/ \E r \in Concurrent : Upload(r)
    \/ \E r \in Concurrent : Preprocess(r)
    \/ \E r \in Concurrent : Recognize(r)
    \/ \E r \in Concurrent : NotOk(r)
    \/ \E r \in Concurrent : Parse(r)
    \/ \E r \in Concurrent : Upsert(r)
    \/ \E r \in Concurrent : Audit(r)
    \/ \E r \in Concurrent : Deploy(r)
    \/ \E r \in Concurrent : Catch(r)
    \/ \E r \in Concurrent : errorHandler(r)
    \/ Tick

\* requests interleaved at their awaits
SpecConc == InitConc /\ [][NextConc]_vars

\* the browser's axios timer of ocrApi.processImage (timeout: 120000): the
\* pending POST is rejected in the browser; nothing in the handler listens to
\* the closed connection, so the handler keeps its position
ClientTimeout(r) ==
    /\ req[r].pc \notin {"new", "done"}
    /\ req[r].client = "waiting"
    /\ req' = [req EXCEPT ![r] = [@ EXCEPT !.client = "timedout"]]
    /\ UNCHANGED <<store, audits, now, env, parser, auth, loop,
                   walk, tagger, pricer, authStore>>

NextLive ==
    \/ Next
    \/ \E r \in Requests : ClientTimeout(r)

\* every continuation of the handler runs once the promise it awaits is
\* settled, and the browser's timer fires; await fetch(config.ocr.endpoint)
\* carries no signal and no timer (ocr.ts:73-87), so it settles only when the
\* recognition service answers or the connection fails: no fairness for it
Fairness ==
    \A r \in Requests :
        /\ WF_vars(Upload(r))
        /\ WF_vars(Preprocess(r))
        /\ WF_vars(NotOk(r))
        /\ WF_vars(Parse(r))
        /\ WF_vars(Upsert(r))
        /\ WF_vars(Audit(r))
        /\ WF_vars(Deploy(r))
        /\ WF_vars(Catch(r))
        /\ WF_vars(errorHandler(r))
        /\ WF_vars(ClientTimeout(r))

\* one request, its browser and a recognition service that may stay silent
SpecLive == Init /\ [][NextLive]_vars /\ Fairness

\* ------------------------------------------- parseOCRResults on its own
Join(lines) ==
    IF Len(lines) = 0 THEN <<>>
    ELSE IF Len(lines) = 1 THEN lines[1]
    ELSE IF Len(lines) = 2 THEN lines[1] \o <<"\n">> \o lines[2]
    ELSE lines[1] \o <<"\n">> \o lines[2] \o <<"\n">> \o lines[3]

SeqsUpTo(S, n) == UNION {[1..k -> S] : k \in 0..n}

LineSet ==
    {<<"A", "l", "e", " ", "$", "5">>,
     <<"a", "b", " ", "$", "1", "2", ".", "5", "0">>,
     <<"$", "5", " ", "a", "l", "e">>,
     <<"a", " ", "$", "5">>,
     <<" ", "P", "o", "r", "t", " ", " ", "$", "9", " ">>,
     <<"h", "o", "u", "s", "e", " ", "b", "o", "u", "r", "b", "o", "n">>,
     <<"s", "h", "o", "r", "t">>,
     <<" ", " ">>}

\* a price line followed by a description line, and by two of them
OldFashioned ==
    Join(<<<<"O", "l", "d", " ", "F", "a", "s", "h", "i", "o", "n", "e",
             "d", " ", "$", "1", "4", ".", "0", "0">>,
           <<"H", "o", "u", "s", "e", " ", "b", "o", "u", "r", "b", "o",
             "n", ",", " ", "b", "i", "t", "t", "e", "r", "s", ",", " ",
             "a", "n", "d", " ", "o", "r", "a", "n", "g", "e", " ", "p",
             "e", "e", "l">>>>)

TwoDescriptionLines ==
    Join(<<<<"A", "l", "e", " ", "$", "5">>,
           <<"h", "o", "u", "s", "e", " ", "b", "o", "u", "r", "b", "o",
             "n">>,
           <<" ", "w", "i", "t", "h", " ", "o", "r", "a", "n", "g", "e",
             " ", "p", "e", "e", "l", " ">>>>)

\* two price lines with a description line between them
TwoItemsApart ==
    Join(<<<<"A", "l", "e", " ", "$", "5">>,
           <<"h", "o", "u", "s", "e", " ", "b", "o", "u", "r", "b", "o",
             "n">>,
           <<"a", "b", " ", "$", "1", "2", ".", "5", "0">>>>)

Texts == {Join(ls) : ls \in SeqsUpTo(LineSet, MaxLines)}
         \cup {OldFashioned, TwoDescriptionLines, TwoItemsApart}

NameSet == {<<>>, <<"a", "b">>, <<"P", "o", "r", "t">>, <<" ", "a", " ">>}

RecordSet ==
    {None} \cup
    {Some([NoRecord EXCEPT !.name = n, !.title = t]) :
        n \in {None} \cup {Some(x) : x \in NameSet},
        t \in {None, Some(<<"T", "e", "a">>)}}

Arrays == SeqsUpTo(RecordSet, MaxRecords)

FewArrays == {JsAbsent, JsOther, JsArray(<<>>),
              JsArray(<<Some(Named(<<"S", "t", "o", "u", "t">>))>>)}

ParserPayloads ==
    {None}
    \cup {Some([text |-> t, extracted_text |-> x, structured_data |-> d,
                items |-> JsAbsent]) :
            t \in {None} \cup {Some(y) : y \in Texts},
            x \in {None, Some(<<"A", "l", "e", " ", "$", "5">>)},
            d \in {JsAbsent, JsOther, JsArray(<<>>)}}
    \cup {Some([text |-> t, extracted_text |-> None, structured_data |-> d,
                items |-> i]) :
            t \in {None, Some(<<"A", "l", "e", " ", "$", "5">>)},
            d \in {JsArray(a) : a \in Arrays},
            i \in FewArrays}
    \cup {Some([text |-> None, extracted_text |-> None, structured_data |-> d,
                items |-> JsArray(a)]) :
            d \in FewArrays, a \in Arrays}

InitParser ==
    /\ AtRest
    /\ loop = NoLoop
    /\ auth = NoAuth
    /\ req = <<>>
    /\ store = {}
    /\ audits = <<>>
    /\ now \in 1..MaxClock
    /\ env = [deployUrl |-> FALSE, production |-> FALSE]
    /\ \E ocrData \in ParserPayloads, menuType \in {"wine_list", "tavern_menu"} :
         parser = [NoCall EXCEPT !.phase = "called", !.ocrData = ocrData,
                                 !.menuType = menuType]

\* parseOCRResults(ocrData, menuType) while the clock may advance
RunParser ==
    /\ parser.phase = "called"
    /\ \E n \in {WalkLen(parser.ocrData)} :
       \E clk \in ClockReads(now, n) :
       \E items \in {ExtractedItems(parser.ocrData, parser.menuType, clk)} :
         /\ parser' = [parser EXCEPT !.phase = "returned",
                                     !.extracted = items,
                                     !.result = NameFilter(items)]
         /\ now' = IF n = 0 THEN now ELSE clk[n]
    /\ UNCHANGED <<req, store, audits, env, auth, loop,
                   walk, tagger, pricer, authStore>>

NextParser == RunParser

SpecParser == InitParser /\ [][NextParser]_vars

\* -------------------------------------------------- authMiddleware alone
\* role of a row of table users (auth.ts:10)
Roles == {"boss", "manager", "staff"}

\* ids of users: the sub claim of a token
Subjects == {"u1", "u2"}

\* a row of table users, or None where the id has no row
UserRows == {None} \cup {Some([role |-> ro, active |-> ac]) :
                            ro \in Roles, ac \in BOOLEAN}

\* bearer tokens: jwt.verify returns the payload of a valid one and throws
\* TokenExpiredError or JsonWebTokenError for the others
Tokens == {[kind |-> "valid", sub |-> u] : u \in Subjects}
          \cup {[kind |-> "expired", sub |-> "u1"],
                [kind |-> "malformed", sub |-> "u1"]}

Routes == {"/api/ocr", "/api/admin"}

\* the roles handed to authMiddleware where the routers are mounted
\* (index.ts:63-64)
allowedRoles(route) ==
    IF route = "/api/ocr" THEN {"boss"} ELSE {"boss", "manager"}

\* res.status(status).json({ error })
Reject(a, status, error) ==
    [a EXCEPT !.phase = "returned", !.status = status, !.error = error]

InitAuth ==
    /\ AtRest
    /\ loop = NoLoop
    /\ req = <<>>
    /\ store = {}
    /\ audits = <<>>
    /\ now = 1
    /\ env = [deployUrl |-> FALSE, production |-> FALSE]
    /\ parser = NoCall
    /\ \E route \in Routes, header \in BOOLEAN, token \in Tokens,
          users \in [Subjects -> UserRows] :
         auth = [NoAuth EXCEPT !.phase = "called", !.route = route,
                               !.header = header, !.token = token,
                               !.users = users]

\* the Authorization header and jwt.verify (auth.ts:21-30, 64-76)
VerifyToken ==
    /\ auth.phase = "called"
    /\ auth' = IF ~auth.header
               THEN Reject(auth, 401, "Authorization token required")
               ELSE IF auth.token.kind = "expired"
               THEN Reject(auth, 401, "Token expired")
               ELSE IF auth.token.kind = "malformed"
               THEN Reject(auth, 401, "Invalid token")
               ELSE [auth EXCEPT !.phase = "lookup"]
    /\ UNCHANGED <<req, store, audits, now, env, parser, loop,
                   walk, tagger, pricer, authStore>>

\* the row of the user, the active flag and the role check (auth.ts:33-62);
\* status 0 stands for next() with req.user set
CheckUser ==
    /\ auth.phase = "lookup"
    /\ \E failed \in BOOLEAN :
         LET user == IF failed THEN None ELSE auth.users[auth.token.sub]
             allowed == allowedRoles(auth.route)
         IN  auth' = IF user = None
                     THEN Reject(auth, 401, "Invalid token")
                     ELSE IF ~user[1].active
                     THEN Reject(auth, 401, "Account deactivated")
                     ELSE IF allowed # {} /\ user[1].role \notin allowed
                     THEN Reject(auth, 403, "Insufficient permissions")
                     ELSE [auth EXCEPT !.phase = "returned", !.user = user]
    /\ UNCHANGED <<req, store, audits, now, env, parser, loop,
                   walk, tagger, pricer, authStore>>

NextAuth == VerifyToken \/ CheckUser

SpecAuth == InitAuth /\ [][NextAuth]_vars

\* ------------------------------------- parseTextMenu, one line at a time
\* parseTextMenu(text, menuType) entered: lines is split and filtered
InitText ==
    /\ AtRest
    /\ req = <<>>
    /\ store = {}
    /\ audits = <<>>
    /\ now \in 1..MaxClock
    /\ env = [deployUrl |-> FALSE, production |-> FALSE]
    /\ parser = NoCall
    /\ auth = NoAuth
    /\ \E text \in Texts, menuType \in {"wine_list", "tavern_menu"} :
         loop = [NoLoop EXCEPT !.phase = "forEach",
                               !.lines = NonEmptyLines(Split(text)),
                               !.menuType = menuType]

\* one call of the callback of lines.forEach (ocr.ts:247-279); index is the
\* 0-based index of the line handled next
ForEachLine ==
    /\ loop.phase = "forEach"
    /\ loop.index < Len(loop.lines)
    /\ LET trimmedLine == Trim(loop.lines[loop.index + 1])
       IN  loop' =
             IF IsPriceLine(trimmedLine)
             THEN [loop EXCEPT
                     !.items = Flush(loop.items, loop.currentItem),
                     !.currentItem = Some(TextItem(trimmedLine, loop.index, now,
                                                   loop.menuType)),
                     !.index = @ + 1]
             ELSE IF loop.currentItem # None /\ Len(trimmedLine) > 10
                     /\ ~HasPriceMatch(trimmedLine)
             THEN [loop EXCEPT
                     !.currentItem = Some(AppendDescription(loop.currentItem[1],
                                                            trimmedLine)),
                     !.index = @ + 1]
             ELSE [loop EXCEPT !.index = @ + 1]
    /\ now' \in now..MaxClock
    /\ UNCHANGED <<req, store, audits, env, parser, auth,
                   walk, tagger, pricer, authStore>>

\* after the loop: the last item is pushed and items is returned
\* (ocr.ts:281-285)
ReturnItems ==
    /\ loop.phase = "forEach"
    /\ loop.index = Len(loop.lines)
    /\ loop' = [loop EXCEPT !.phase = "returned",
                            !.items = Flush(loop.items, loop.currentItem)]
    /\ UNCHANGED <<req, store, audits, now, env, parser, auth,
                   walk, tagger, pricer, authStore>>

NextText == ForEachLine \/ ReturnItems

SpecText == InitText /\ [][NextText]_vars

\* ----------------------------- structuredData.forEach, one record at a time
Port == <<"P", "o", "r", "t">>

ReserveRed == <<"R", "e", "s", "e", "r", "v", "e", " ", "R", "e", "d">>

\* records of a structured payload: JSON null, {}, and objects with some of
\* name, title, description, desc and price
WalkRecords ==
    {None,
     Some(NoRecord),
     Some(Named(Port)),
     Some([NoRecord EXCEPT !.name = Some(<<>>), !.title = Some(<<"T", "e", "a">>)]),
     Some([NoRecord EXCEPT !.title = Some(ReserveRed)]),
     Some([Named(ReserveRed) EXCEPT !.title = Some(Port)]),
     Some([Named(Port) EXCEPT !.description = Some(<<"v", "i", "n", "t", "a", "g", "e">>),
                              !.desc = Some(<<"n", "e", "w">>)]),
     Some([Named(Port) EXCEPT !.desc = Some(<<"n", "e", "w", " ", "r", "e", "d">>),
                              !.price = JsStr(<<"$", "1", "4", ".", "0", "0">>)]),
     Some([Named(Port) EXCEPT !.price = JsNum(-500)]),
     Some([Named(Port) EXCEPT !.price = JsStr(<<"-", "5">>)]),
     Some([Named(Port) EXCEPT !.price = JsNum(Infinity)]),
     Some([Named(<<"a", "b">>) EXCEPT !.price = JsNum(0)])}

\* categories a validated request can carry (MENU_TYPE_MAPPING, ocr.ts:28-33)
WalkMenuTypes == {"wine_list", "signature_cocktails", "tavern_menu"}

\* parseOCRResults has taken the structured branch (ocr.ts:210): the array is
\* not empty
InitWalk ==
    /\ req = <<>>
    /\ store = {}
    /\ audits = <<>>
    /\ now \in 1..MaxClock
    /\ env = [deployUrl |-> FALSE, production |-> FALSE]
    /\ parser = NoCall
    /\ auth = NoAuth
    /\ loop = NoLoop
    /\ tagger = NoTagger
    /\ pricer = NoPricer
    /\ authStore = NoAuthStore
    /\ \E arr \in SeqsUpTo(WalkRecords, MaxRecords) \ {<<>>},
          menuType \in WalkMenuTypes :
         walk = [NoWalk EXCEPT !.phase = "forEach", !.arr = arr,
                               !.menuType = menuType]

\* one call of the callback of structuredData.forEach (ocr.ts:211-228);
\* reading item.name of a null element throws into the catch of line 233
ForEachRecord ==
    /\ walk.phase = "forEach"
    /\ walk.index < Len(walk.arr)
    /\ LET item == walk.arr[walk.index + 1]
       IN  walk' =
             IF item = None THEN [walk EXCEPT !.phase = "caught"]
             ELSE [walk EXCEPT
                     !.items = Append(@, StructuredItem(item[1], walk.index, now,
                                                        walk.menuType)),
                     !.index = @ + 1]
    /\ now' \in now..MaxClock
    /\ UNCHANGED <<req, store, audits, env, parser, auth, loop,
                   tagger, pricer, authStore>>

\* return items.filter(...) after the loop or after the catch (ocr.ts:237)
ReturnFiltered ==
    /\ \/ walk.phase = "caught"
       \/ walk.phase = "forEach" /\ walk.index = Len(walk.arr)
    /\ walk' = [walk EXCEPT !.phase = "returned", !.result = NameFilter(walk.items)]
    /\ UNCHANGED <<req, store, audits, now, env, parser, auth, loop,
                   tagger, pricer, authStore>>

NextWalk == ForEachRecord \/ ReturnFiltered

SpecWalk == InitWalk /\ [][NextWalk]_vars

\* ------------------------------------------------ determineTags on its own
EstateReserveCabernet ==
    <<"E", "s", "t", "a", "t", "e", " ", "R", "e", "s", "e", "r", "v",
      "e", " ", "C", "a", "b", "e", "r", "n", "e", "t">>

SimpleGinFizz == <<"s", "i", "m", "p", "l", "e", " ", "g", "i", "n", " ", "f", "i", "z", "z">>

TagNames ==
    {EstateReserveCabernet, SimpleGinFizz,
     <<"T", "o", "p", " ", "S", "h", "e", "l", "f", " ", "P", "R", "E", "M", "I", "U", "M">>,
     <<"t", "o", "p">>,
     <<"V", "i", "n", "t", "a", "g", "e", " ", "C", "h", "a", "m", "p", "a", "g", "n", "e">>,
     <<"W", "h", "i", "t", "e", " ", "S", "p", "a", "r", "k", "l", "i", "n", "g">>,
     <<"R", "e", "d", " ", "s", "p", "e", "c", "i", "a", "l">>,
     <<"N", "E", "W", " ", "F", "e", "a", "t", "u", "r", "e", "d">>,
     <<"L", "i", "m", "i", "t", "e", "d">>,
     <<"P", "o", "r", "t">>}

TagDescriptions ==
    {None,
     Some(<<>>),
     Some(<<"r", "e", "d">>),
     Some(<<"s", "h", "e", "l", "f", " ", "g", "i", "n">>),
     Some(<<"b", "r", "a", "n", "d", " ", "n", "e", "w", " ", "S", "p", "e", "c", "i", "a", "l">>)}

\* the four categories of MENU_TYPE_MAPPING (ocr.ts:28-33)
Categories == {"wine_list", "featured_menu", "signature_cocktails", "tavern_menu"}

InitTags ==
    /\ req = <<>>
    /\ store = {}
    /\ audits = <<>>
    /\ now = 1
    /\ env = [deployUrl |-> FALSE, production |-> FALSE]
    /\ parser = NoCall
    /\ auth = NoAuth
    /\ loop = NoLoop
    /\ walk = NoWalk
    /\ pricer = NoPricer
    /\ authStore = NoAuthStore
    /\ \E name \in TagNames, description \in TagDescriptions,
          menuType \in Categories :
         tagger = [NoTagger EXCEPT
                     !.phase = "called",
                     !.item = [NoRecord EXCEPT !.name = Some(name),
                                               !.description = description],
                     !.menuType = menuType]

\* determineTags(item, menuType) returns (ocr.ts:300-332)
Classify ==
    /\ tagger.phase = "called"
    /\ tagger' = [tagger EXCEPT !.phase = "returned",
                                !.tags = determineTags(tagger.item, tagger.menuType)]
    /\ UNCHANGED <<req, store, audits, now, env, parser, auth, loop,
                   walk, pricer, authStore>>

NextTags == Classify

SpecTags == InitTags /\ [][NextTags]_vars

\* --------------------------------------------------- parsePrice on its own
PriceChars == {"$", "1", "0", ".", ",", "N"}

\* prices are kept in hundredths: strings with more than two digits after
\* the first period are left out
TwoDecimals(s) ==
    LET c == Cleaned(s)
        ip == DigitRun(c)
        rest == SubSeq(c, Len(ip) + 1, Len(c))
    IN  rest # <<>> => Len(DigitRun(Tail(rest))) <= 2

PriceStrings ==
    {s \in SeqsUpTo(PriceChars, MaxPriceLen) : TwoDecimals(s)}
    \cup {<<"$", "1", "4", ".", "0", "0">>, <<"N", "/", "A">>, <<"$", "1", ",", "2", "3", "4", ".", "5", "0">>,
          <<"1", "2", " ", "o", "z">>, <<"-", "5">>}

\* the price field of a record: absent or null, a number, a string
PriceInputs ==
    {JsUndef, JsNum(0), JsNum(1200), JsNum(1450), JsNum(-500), JsNum(Infinity)}
    \cup {JsStr(s) : s \in PriceStrings}

InitPrice ==
    /\ req = <<>>
    /\ store = {}
    /\ audits = <<>>
    /\ now = 1
    /\ env = [deployUrl |-> FALSE, production |-> FALSE]
    /\ parser = NoCall
    /\ auth = NoAuth
    /\ loop = NoLoop
    /\ walk = NoWalk
    /\ tagger = NoTagger
    /\ authStore = NoAuthStore
    /\ \E priceStr \in PriceInputs :
         pricer = [NoPricer EXCEPT !.phase = "called", !.priceStr = priceStr]

\* parsePrice(priceStr) returns (ocr.ts:289-297)
Normalize ==
    /\ pricer.phase = "called"
    /\ pricer' = [pricer EXCEPT !.phase = "returned",
                                !.result = parsePrice(pricer.priceStr)]
    /\ UNCHANGED <<req, store, audits, now, env, parser, auth, loop,
                   walk, tagger, authStore>>

NextPrice == Normalize

SpecPrice == InitPrice /\ [][NextPrice]_vars

\* ------------------------------------------- the client's auth store
\* localStorage with none of the three keys
NoKeys == [auth_token |-> None, user_data |-> None, refresh_token |-> None]

\* the session a browser may hold from an earlier visit: keys of
\* localStorage, and user and token of the store as persist restores them
InitClient ==
    /\ req = <<>>
    /\ store = {}
    /\ audits = <<>>
    /\ now = 1
    /\ env = [deployUrl |-> FALSE, production |-> FALSE]
    /\ parser = NoCall
    /\ auth = NoAuth
    /\ loop = NoLoop
    /\ walk = NoWalk
    /\ tagger = NoTagger
    /\ pricer = NoPricer
    /\ \E t \in {None, Some("t0")}, u \in {None, Some("u0")},
          rt \in {None, Some("r0")}, restored \in BOOLEAN :
         authStore = [NoAuthStore EXCEPT
            !.phase = "created",
            !.user = IF restored THEN Some("u0") ELSE None,
            !.token = IF restored THEN Some("t0") ELSE None,
            !.localStorage = [auth_token |-> t, user_data |-> u,
                              refresh_token |-> rt]]

\* the response interceptor of the api client (part_000:28-39): a 401
\* removes auth_token and user_data
On401(ls, status) ==
    IF status = 401 THEN [ls EXCEPT !.auth_token = None, !.user_data = None]
    ELSE ls

\* checkAuth up to its await (authStore.ts:78-91), called when the store is
\* created (authStore.ts:160-162)
checkAuthStart ==
    /\ authStore.phase = "created"
    /\ authStore.calls.checkAuth.pc = "idle"
    /\ LET token == authStore.localStorage.auth_token
           userData == authStore.localStorage.user_data
       IN  authStore' =
             IF token = None \/ userData = None
             THEN [authStore EXCEPT !.user = None, !.token = None,
                                    !.calls.checkAuth.pc = "done"]
             ELSE [authStore EXCEPT !.isLoading = TRUE,
                                    !.calls.checkAuth = [pc |-> "await",
                                                         token |-> token]]
    /\ UNCHANGED <<req, store, audits, now, env, parser, auth, loop,
                   walk, tagger, pricer>>

\* authApi.getCurrentUser() settles (authStore.ts:93-117): status 200 is a
\* success for the user of the stored session, 401 a rejected token, 0 no
\* answer
checkAuthSettle ==
    /\ authStore.calls.checkAuth.pc = "await"
    /\ \E status \in {200, 401, 0} :
         authStore' =
           IF status = 200
           THEN [authStore EXCEPT !.user = Some("u0"),
                                  !.token = authStore.calls.checkAuth.token,
                                  !.isLoading = FALSE, !.error = None,
                                  !.calls.checkAuth.pc = "done"]
           ELSE [authStore EXCEPT !.localStorage = NoKeys,
                                  !.user = None, !.token = None,
                                  !.isLoading = FALSE, !.error = None,
                                  !.calls.checkAuth.pc = "done"]
    /\ UNCHANGED <<req, store, audits, now, env, parser, auth, loop,
                   walk, tagger, pricer>>

\* login up to its await (authStore.ts:24-28); the form can be sent once
\* the module has run, so after checkAuth has started
loginStart ==
    /\ authStore.calls.checkAuth.pc # "idle"
    /\ authStore.calls.login.pc = "idle"
    /\ authStore' = [authStore EXCEPT !.isLoading = TRUE, !.error = None,
                                      !.calls.login.pc = "await"]
    /\ UNCHANGED <<req, store, audits, now, env, parser, auth, loop,
                   walk, tagger, pricer>>

\* authApi.login settles (authStore.ts:30-55): 200 with token t1 and user
\* u1, 401 for wrong credentials, 0 for no answer
loginSettle ==
    /\ authStore.calls.login.pc = "await"
    /\ \E status \in {200, 401, 0} :
         authStore' =
           IF status = 200
           THEN [authStore EXCEPT
                   !.localStorage.auth_token = Some("t1"),
                   !.localStorage.user_data = Some("u1"),
                   !.user = Some("u1"), !.token = Some("t1"),
                   !.isLoading = FALSE, !.error = None,
                   !.calls.login.pc = "done"]
           ELSE [authStore EXCEPT
                   !.localStorage = On401(@, status),
                   !.error = Some(IF status = 401 THEN "Invalid credentials"
                                  ELSE "Network Error"),
                   !.isLoading = FALSE, !.user = None, !.token = None,
                   !.calls.login.pc = "rejected"]
    /\ UNCHANGED <<req, store, audits, now, env, parser, auth, loop,
                   walk, tagger, pricer>>

\* logout up to its await (authStore.ts:58-60, part_000:114-116)
logoutStart ==
    /\ authStore.calls.checkAuth.pc # "idle"
    /\ authStore.calls.logout.pc = "idle"
    /\ authStore' = [authStore EXCEPT !.calls.logout.pc = "await"]
    /\ UNCHANGED <<req, store, audits, now, env, parser, auth, loop,
                   walk, tagger, pricer>>

\* a bug: a failed logout request is thrown on and nothing is cleared
logoutSettleRethrows ==
    /\ authStore.calls.logout.pc = "await"
    /\ \E status \in {200, 401, 0} :
         authStore' =
           IF status = 200
           THEN [authStore EXCEPT !.localStorage = NoKeys,
                                  !.user = None, !.token = None,
                                  !.error = None, !.isLoading = FALSE,
                                  !.calls.logout.pc = "done"]
           ELSE [authStore EXCEPT !.localStorage = On401(@, status),
                                  !.calls.logout.pc = "rejected"]
    /\ UNCHANGED <<req, store, audits, now, env, parser, auth, loop,
                   walk, tagger, pricer>>

\* the logout request settles (part_000:116-119, authStore.ts:61-75): the
\* three keys are removed and the store is reset whatever the status
logoutSettle ==
    /\ authStore.calls.logout.pc = "await"
    /\ \E status \in {200, 401, 0} :
         authStore' = [authStore EXCEPT !.localStorage = NoKeys,
                                        !.user = None, !.token = None,
                                        !.error = None, !.isLoading = FALSE,
                                        !.calls.logout.pc = "done"]
    /\ UNCHANGED <<req, store, audits, now, env, parser, auth, loop,
                   walk, tagger, pricer>>

NextClient ==
    \/ checkAuthStart
    \/ checkAuthSettle
    \/ loginStart
    \/ loginSettle
    \/ logoutStart
    \/ logoutSettle

SpecClient == InitClient /\ [][NextClient]_vars

\* ================================================================ claims
\* what the specification calls a validation failure of request q
ValidationFails(q) ==
    \/ q.file = None
    \/ q.file[1].size > FileSizeLimit
    \/ q.file[1].mimetype \notin allowedMimes
    \/ q.menuTypeIn = None
    \/ q.menuTypeIn[1] \notin MenuTypes

Received(q) == q.pc # "new"

\* C1: a request that fails validation (no file, file over 10 MiB, MIME type
\* not allowed, menu type missing or not one of the four categories) never
\* reaches the preprocessing step, the recognition call or the storage write.
C1_InvalidRequestDoesNoWork ==
    \A r \in DOMAIN req :
        Received(req[r]) /\ ValidationFails(req[r])
        => /\ req[r].sharpCalls = 0
           /\ req[r].ocrCalls = 0
           /\ req[r].upsertCalls = 0

\* C2: each validation failure ends the request with a 4xx response and
\* without an alert.
C2_InvalidRequestIsClientError ==
    \A r \in DOMAIN req :
        req[r].pc = "done" /\ ValidationFails(req[r])
        => /\ req[r].res.status \in 400..499
           /\ req[r].alertCalls = 0

\* C3: when the parser returns no draft for a payload received with a
\* success status, the request ends as a soft failure (success = false, a
\* message, the three suggestions, the extracted text), with no storage
\* write, no audit write and no alert; the storage write is invoked only
\* with at least one draft.
C3_EmptyExtractionIsSoftFailure ==
    \A r \in DOMAIN req :
        /\ req[r].parseCalls = 1 /\ req[r].parsedItems = <<>>
           => /\ req[r].upsertCalls = 0
              /\ req[r].auditCalls = 0
              /\ req[r].alertCalls = 0
              /\ req[r].pc = "done"
                 => /\ req[r].res.status = 200
                    /\ req[r].res.success = FALSE
                    /\ req[r].res.message # ""
                    /\ req[r].res.suggestions = Suggestions
                    /\ req[r].res.extractedText # None
        /\ req[r].upsertCalls > 0 => Len(req[r].parsedItems) > 0

RecognitionFailed(q) == q.ocrOutcome \in {"neterr", "notok"}

\* C4: when the recognition call fails (non-success status or network
\* error) it was called once and is not called again, the alert has been
\* raised by the time the failure leaves the handler, the response is a
\* server error, and neither the storage write nor the audit write happens.
C4_RecognitionFailure ==
    \A r \in DOMAIN req :
        RecognitionFailed(req[r])
        => /\ req[r].ocrCalls = 1
           /\ req[r].parseCalls = 0
           /\ req[r].upsertCalls = 0
           /\ req[r].auditCalls = 0
           /\ req[r].pc \in {"notok", "catch", "error", "done"}
           /\ req[r].pc \in {"error", "done"} => req[r].alertCalls >= 1
           /\ req[r].pc = "done" => /\ req[r].res.status >= 500
                                    /\ req[r].res.success = FALSE

C4_Witness ==
    \E r \in DOMAIN req :
        /\ req[r].ocrOutcome = "neterr"
        /\ req[r].pc = "done"
        /\ req[r].res.status = 500
        /\ req[r].alertCalls >= 1

\* C5: when the storage upsert fails no audit record is written, the error
\* reaches the caller of bulkUpsertMenuItems, an alert is raised before the
\* request ends with a server error, and no success response is sent.
C5_StorageFailure ==
    \A r \in DOMAIN req :
        req[r].upsertOutcome = "failed"
        => /\ req[r].auditCalls = 0
           /\ req[r].savedItems = <<>>
           /\ req[r].pc \in {"catch", "error", "done"}
           /\ req[r].err # None
           /\ req[r].res.success = FALSE
           /\ req[r].pc \in {"error", "done"} => req[r].alertCalls >= 1
           /\ req[r].pc = "done" => req[r].res.status >= 500

C5_Witness ==
    \E r \in DOMAIN req :
        /\ req[r].upsertOutcome = "failed"
        /\ req[r].pc = "done"
        /\ req[r].res.status = 500
        /\ store = {}

\* C6: after a successful storage upsert exactly one audit record is
\* attempted, after the write, with operation "bulk_update", the item count
\* and the ids of the batch; when it fails the request still returns the
\* items storage reported and answers with a success.
C6_AuditIsBestEffort ==
    \A r \in DOMAIN req :
        /\ req[r].auditCalls > 0 => req[r].upsertOutcome = "ok"
        /\ req[r].upsertOutcome = "ok"
           => /\ req[r].pc \in {"audit", "deploy", "done"}
              /\ req[r].auditCalls = IF req[r].pc = "audit" THEN 0 ELSE 1
              /\ req[r].savedItems = req[r].parsedItems
              /\ \A i \in 1..Len(req[r].savedItems) : req[r].savedItems[i] \in store
                    \/ \E o \in DOMAIN req : o # r /\ req[o].overwrote
              /\ req[r].auditOutcome = "ok"
                 => \E k \in 1..Len(audits) :
                       /\ audits[k].operation = "bulk_update"
                       /\ audits[k].items_count = Len(req[r].parsedItems)
                       /\ audits[k].items = [i \in 1..Len(req[r].parsedItems) |->
                                                req[r].parsedItems[i].id]
              /\ req[r].pc = "done"
                 => /\ req[r].res.status = 200
                    /\ req[r].res.success = TRUE
                    /\ req[r].res.itemsSaved = Len(req[r].savedItems)
                    /\ req[r].alertCalls = 0

C6_Witness ==
    \E r \in DOMAIN req :
        /\ req[r].upsertOutcome = "ok"
        /\ req[r].auditOutcome = "failed"
        /\ req[r].auditCalls = 1
        /\ req[r].pc = "done"
        /\ req[r].res.success = TRUE
        /\ audits = <<>>

\* C7: every identifier of a batch handed to storage is absent from the
\* table when the batch is written, so no upsert replaces a row written by
\* another batch.
C7_UpsertAlwaysInserts ==
    \A r \in DOMAIN req : ~req[r].overwrote

Returned == parser.phase = "returned"

\* C8: no two drafts of one batch of the parser carry the same identifier,
\* on either path, whatever the clock does between the items.
C8_IdsUniqueInBatch ==
    Returned
    => /\ \A i, j \in 1..Len(parser.extracted) :
            i # j => parser.extracted[i].id # parser.extracted[j].id
       /\ \A i, j \in 1..Len(parser.result) :
            i # j => parser.result[i].id # parser.result[j].id

\* two drafts of the text path whose identifiers carry different clock values
C8_Witness ==
    /\ Returned
    /\ Len(parser.result) = 2
    /\ parser.result[1].id[3] = "manual"
    /\ parser.result[2].id[3] = "manual"
    /\ parser.result[1].id[5] # parser.result[2].id[5]

\* C9: every draft the parser returns has a name whose trimmed length
\* exceeds 2, on the structured path and on the text path.
C9_TrimmedNameLongerThanTwo ==
    Returned
    => \A i \in 1..Len(parser.result) : Len(Trim(parser.result[i].name)) > 2

\* C10: with a structured array that is present and non-empty every element
\* goes through the structured extractor; otherwise the text extractor is
\* used; a batch never holds drafts of both paths.
C10_PathSelection ==
    Returned /\ parser.ocrData # None
    => LET sd == StructuredData(parser.ocrData[1])
       IN  IF sd.t = "array" /\ Len(sd.a) > 0
           THEN /\ Len(parser.extracted) = Len(sd.a)
                /\ \A i \in 1..Len(parser.extracted) :
                      parser.extracted[i].id[3] = "ocr"
           ELSE \A i \in 1..Len(parser.extracted) :
                      parser.extracted[i].id[3] = "manual"

\* the payload of two structured records, one of them named "ab"
TwoRecords ==
    Some([NoPayload EXCEPT !.items =
             JsArray(<<Some(Named(<<"a", "b">>)),
                       Some(Named(<<"S", "t", "o", "u", "t">>))>>)])

\* C11: the batch handed to storage holds only drafts whose name is longer
\* than 2, a successful write puts exactly that batch into the table, and the
\* success response reports itemsProcessed as the length of that batch; for
\* the payload of two records of which one is named "ab", one item is stored
\* and itemsProcessed is 1.
C11_PersistsFilteredBatch ==
    /\ [](\A r \in DOMAIN req :
            LET q == req[r]
            IN  /\ q.upsertCalls > 0
                   => \A i \in 1..Len(q.parsedItems) : Len(q.parsedItems[i].name) > 2
                /\ q.upsertOutcome = "ok" => q.savedItems = q.parsedItems
                /\ q.pc = "done" /\ q.res.success
                   => /\ q.upsertOutcome = "ok"
                      /\ q.res.itemsProcessed = Len(q.parsedItems)
                      /\ q.ocrData = TwoRecords
                         => /\ q.res.itemsProcessed = 1
                            /\ q.parsedItems[1].name = <<"S", "t", "o", "u", "t">>)
    /\ [][\A r \in DOMAIN req :
            req[r].upsertOutcome = "none" /\ req'[r].upsertOutcome = "ok"
            => LET batch == {req[r].parsedItems[i] : i \in 1..Len(req[r].parsedItems)}
               IN  /\ batch \subseteq store'
                   /\ store' \ store \subseteq batch
                   /\ req'[r].parsedItems = req[r].parsedItems]_vars

C11_Witness ==
    \E r \in DOMAIN req :
        /\ req[r].pc = "done"
        /\ req[r].res.success
        /\ req[r].ocrData = TwoRecords
        /\ Len(StructuredData(req[r].ocrData[1]).a) = 2
        /\ req[r].res.itemsProcessed = 1
        /\ Cardinality(store) = 1

\* C12: a request that passed validation and reached the recognition call
\* eventually ends with a response, also when the recognition service never
\* answers, and the recognition service is called at most once per request.
C12_ValidatedRequestTerminates ==
    /\ \A r \in Requests : (req[r].pc = "fetch") ~> (req[r].pc = "done")
    /\ [](\A r \in Requests : req[r].ocrCalls <= 1)

\* C12, on timeout the request fails outright: once the two-minute timer
\* of the caller has fired, the request writes nothing to storage.
C12_TimeoutFailsOutright ==
    [][\A r \in Requests :
          req[r].client = "timedout" => req'[r].upsertOutcome = req[r].upsertOutcome]_vars

\* the preprocessing step of request q failed
PreprocessingFailed(q) == q.sharpCalls = 1 /\ q.ocrCalls = 0 /\ q.err # None

\* C13 as stated: an alert is sent only for a request whose recognition call
\* or storage write failed; in particular none is sent after a preprocessing
\* failure, a validation failure or a soft failure.
C13_AlertOnlyUpstreamOrPersistence ==
    \A r \in DOMAIN req :
        req[r].alertCalls > 0
        => RecognitionFailed(req[r]) \/ req[r].upsertOutcome = "failed"

\* C13 amended: an alert is sent exactly for the requests that end in a
\* server error response (status 500 or more), that is for every exception
\* thrown inside the pipeline, a preprocessing failure included, and for every
\* error that reaches the error handler without a status; a request answered
\* with a 4xx status, a soft failure or a success sends no alert.
C13_AlertIffServerError ==
    \A r \in DOMAIN req :
        LET q == req[r]
        IN  /\ q.alertCalls > 0 => q.err # None /\ StatusOf(q.err[1]) >= 500
            /\ q.pc = "done"
               => (q.alertCalls > 0 <=> q.res.status >= 500)
            /\ q.pc = "done" /\ PreprocessingFailed(q) => q.alertCalls > 0

C13_Witness ==
    \E r \in DOMAIN req :
        /\ req[r].pc = "done"
        /\ PreprocessingFailed(req[r])
        /\ req[r].alertCalls > 0
        /\ req[r].res.status = 500

\* request q ended in an UpstreamError or a PersistenceError
ServerFailure(q) ==
    /\ q.pc = "done"
    /\ RecognitionFailed(q) \/ q.upsertOutcome = "failed"

\* C14: in production mode any two requests that ended in an UpstreamError
\* or a PersistenceError were sent the same response body, whatever the
\* message of the error each of them failed with.
C14_GenericBodyInProduction ==
    \A r1, r2 \in DOMAIN req :
        env.production /\ ServerFailure(req[r1]) /\ ServerFailure(req[r2])
        => req[r1].res = req[r2].res

\* C14 for two failed storage writes alone
C14_StorageErrorNotLeaked ==
    \A r1, r2 \in DOMAIN req :
        /\ env.production
        /\ ServerFailure(req[r1]) /\ req[r1].upsertOutcome = "failed"
        /\ ServerFailure(req[r2]) /\ req[r2].upsertOutcome = "failed"
        => req[r1].res = req[r2].res

\* C15: a request whose storage write succeeded never ends in an error
\* response, whether the audit write and the deployment webhook that follow
\* succeed or fail; a storage write that fails leaves the table as it was.
C15_NoErrorAfterWrite ==
    /\ [](\A r \in DOMAIN req :
            LET q == req[r]
            IN  q.upsertOutcome = "ok"
                => /\ q.err = None
                   /\ q.pc \in {"audit", "deploy", "done"}
                   /\ q.pc = "done" => q.res.success /\ q.res.status = 200)
    /\ [][\A r \in DOMAIN req :
            req[r].upsertOutcome = "none" /\ req'[r].upsertOutcome = "failed"
            => store' = store]_vars

C15_Witness ==
    \E r \in DOMAIN req :
        /\ req[r].pc = "done"
        /\ req[r].upsertOutcome = "ok"
        /\ req[r].auditOutcome = "failed"
        /\ req[r].deployOutcome = "failed"
        /\ req[r].res.success

\* the middleware answered a request that carried a valid token of an
\* active user with role ro
AnsweredActive(ro) ==
    /\ auth.phase = "returned"
    /\ auth.header /\ auth.token.kind = "valid"
    /\ auth.users[auth.token.sub] = Some([role |-> ro, active |-> TRUE])
    /\ auth.error # "Invalid token"

\* C16: on /api/ocr an authenticated active manager is let through to the
\* handler (as a boss is), and an authenticated active staff user is answered
\* 403 without the handler running.
C16_ManagerMayProcess ==
    auth.route = "/api/ocr"
    => /\ AnsweredActive("manager") => auth.status = 0 /\ auth.user # None
       /\ AnsweredActive("boss") => auth.status = 0 /\ auth.user # None
       /\ AnsweredActive("staff") => auth.status = 403 /\ auth.user = None

\* parseTextMenu returned
TextReturned == loop.phase = "returned"

\* the trimmed non-blank lines of the text handed to parseTextMenu
TextLines == [i \in 1..Len(loop.lines) |-> Trim(loop.lines[i])]

\* positions of the price lines among TextLines
PriceLines == {i \in 1..Len(TextLines) : IsPriceLine(TextLines[i])}

\* C17: every item the text extractor emits has a non-empty name, the price
\* read from its price line, the target category, available = true and no
\* tags; the items come from distinct price lines, in the order of those
\* lines, so there are at most as many items as price lines.
C17_TextItemsWellFormed ==
    TextReturned
    => LET out == loop.items
       IN  /\ \A k \in 1..Len(out) :
                 /\ out[k].name # <<>>
                 /\ out[k].price # None
                 /\ out[k].category = loop.menuType
                 /\ out[k].available = TRUE
                 /\ out[k].tags = <<>>
           /\ \E origin \in [1..Len(out) -> PriceLines] :
                 /\ \A k \in 1..Len(out) :
                       /\ out[k].name = NameWithoutPrice(TextLines[origin[k]])
                       /\ out[k].price =
                            Some(ParseFloatCents(PriceGroup(TextLines[origin[k]])))
                 /\ \A j, k \in 1..Len(out) : j < k => origin[j] < origin[k]
           /\ Len(out) <= Cardinality(PriceLines)

\* two price lines, of which the one without a name emitted nothing
C17_Witness ==
    /\ TextReturned
    /\ Cardinality(PriceLines) = 2
    /\ Len(loop.items) = 1
    /\ loop.items[1].price = Some(1250)

\* 1-based position in TextLines of the line that started item it: the index
\* its id ends with, plus one
OriginOf(it) == DigitValue(it.id[Len(it.id)]) + 1

\* position of the first price line after line o, or one past the last line
NextPriceLine(o) ==
    IF \E j \in PriceLines : j > o
    THEN CHOOSE j \in PriceLines : j > o /\ \A i \in PriceLines : i > o => j <= i
    ELSE Len(TextLines) + 1

\* the lines j..hi that are not price lines and are longer than 10
RECURSIVE LongLines(_, _)
LongLines(j, hi) ==
    IF j > hi THEN <<>>
    ELSE (IF j \notin PriceLines /\ Len(TextLines[j]) > 10
          THEN <<TextLines[j]>> ELSE <<>>) \o LongLines(j + 1, hi)

RECURSIVE JoinSpaces(_)
JoinSpaces(ls) ==
    IF Len(ls) = 0 THEN <<>>
    ELSE IF Len(ls) = 1 THEN ls[1]
    ELSE ls[1] \o <<" ">> \o JoinSpaces(Tail(ls))

\* C18: the description of an emitted item is absent when no line that is
\* not a price line and is longer than 10 (trimmed) lies between its price
\* line and the next price line or the end of the text; otherwise it is
\* those lines, trimmed, in order, joined by single spaces.  The text
\* "Old Fashioned $14.00" followed by "House bourbon, bitters, and orange
\* peel" gives one item with that name, price 14.00 and that description.
C18_DescriptionOfTextItem ==
    TextReturned
    => LET out == loop.items
       IN  /\ \A k \in 1..Len(out) :
                 LET o == OriginOf(out[k])
                     ls == LongLines(o + 1, NextPriceLine(o) - 1)
                 IN  out[k].description =
                        IF ls = <<>> THEN None ELSE Some(JoinSpaces(ls))
           /\ loop.lines = NonEmptyLines(Split(OldFashioned))
              => /\ Len(out) = 1
                 /\ out[1].name = SubSeq(TextLines[1], 1, 13)
                 /\ out[1].price = Some(1400)
                 /\ out[1].description = Some(TextLines[2])

\* an item whose description is two lines joined by one space
C18_Witness ==
    /\ TextReturned
    /\ loop.lines = NonEmptyLines(Split(TwoDescriptionLines))
    /\ Len(loop.items) = 1
    /\ loop.items[1].description =
          Some(TextLines[2] \o <<" ">> \o TextLines[3])
    /\ Len(TextLines[3]) = 16

\* the trimmed line the callback of forEach handles next
CurrentLine == Trim(loop.lines[loop.index + 1])

\* C19: a line that is not a price line (no dollar amount, or a dollar amount
\* on a line of trimmed length 5 or less) leaves the emitted items alone and
\* neither starts nor drops the item being built; it changes that item, by
\* appending itself to the description, exactly when an item is being built,
\* the line is longer than 10 and has no dollar amount.  A text without any
\* dollar amount returns no item.
C19_NonPriceLineFrame ==
    /\ [][loop.phase = "forEach" /\ loop'.index = loop.index + 1
            /\ ~(HasPriceMatch(CurrentLine) /\ Len(CurrentLine) > 5)
          => /\ loop'.items = loop.items
             /\ loop'.lines = loop.lines
             /\ loop'.currentItem =
                  IF loop.currentItem # None /\ Len(CurrentLine) > 10
                     /\ ~HasPriceMatch(CurrentLine)
                  THEN Some([loop.currentItem[1] EXCEPT !.description =
                          IF @ = None THEN Some(CurrentLine)
                          ELSE Some(@[1] \o <<" ">> \o CurrentLine)])
                  ELSE loop.currentItem]_vars
    /\ [](loop.phase = "returned"
             /\ (\A i \in 1..Len(loop.lines) : ~HasPriceMatch(Trim(loop.lines[i])))
          => loop.items = <<>>)

\* a line with a dollar amount and of trimmed length 4 was passed over while
\* the item of the first line was being built
C19_Witness ==
    /\ loop.phase = "forEach"
    /\ loop.index = 2
    /\ HasPriceMatch(Trim(loop.lines[2])) /\ Len(Trim(loop.lines[2])) <= 5
    /\ loop.currentItem # None
    /\ loop.currentItem[1].id[Len(loop.currentItem[1].id)] = "0"

\* C20: a call that takes the structured path returns from the extractor,
\* before the name filter, one draft per record of the array, the k-th draft
\* made from the k-th record, also when records are null or have no field.
C20_OneDraftPerRecord ==
    Returned /\ parser.ocrData # None /\ UseStructured(parser.ocrData[1])
    => LET records == StructuredData(parser.ocrData[1]).a
       IN  /\ Len(parser.extracted) = Len(records)
           /\ \A k \in 1..Len(parser.extracted) :
                 OriginOf(parser.extracted[k]) = k

\* ---------------------------------------------------------------- C21
\* the record a draft of the walk was made from
RecordOf(k) == walk.arr[k][1]

\* C21: the name of the draft made from the record at 0-based index i is
\* the record's name when that is non-empty, else its title when that is
\* non-empty, else "Item <i+1>"; the draft of a record with neither name
\* nor title is kept by the name filter.
C21_NameResolution ==
    /\ \A k \in 1..Len(walk.items) :
         walk.items[k].name =
            IF Truthy(RecordOf(k).name) THEN RecordOf(k).name[1]
            ELSE IF Truthy(RecordOf(k).title) THEN RecordOf(k).title[1]
            ELSE <<"I", "t", "e", "m", " ">> \o Dec(k)
    /\ walk.phase = "returned" =>
         \A k \in 1..Len(walk.items) :
            ~Truthy(RecordOf(k).name) /\ ~Truthy(RecordOf(k).title) =>
               \E j \in 1..Len(walk.result) : walk.result[j] = walk.items[k]

\* a returned walk whose second record has neither name nor title: its
\* draft is named "Item 2" and is part of the result
C21_Witness ==
    /\ walk.phase = "returned"
    /\ Len(walk.items) >= 2
    /\ RecordOf(2).name = None /\ RecordOf(2).title = None
    /\ walk.items[2].name = <<"I", "t", "e", "m", " ", "2">>
    /\ \E j \in 1..Len(walk.result) : walk.result[j] = walk.items[2]
    /\ \E k \in 1..Len(walk.items) :
         RecordOf(k).name = Some(<<>>) /\ walk.items[k].name = <<"T", "e", "a">>

\* ---------------------------------------------------------------- C22
\* the tags as a set
TagSet(tags) == {tags[i] : i \in 1..Len(tags)}

\* the name and the description a draft carries, as the classifier reads them
Resolved(draft) == [name |-> Some(draft.name), description |-> draft.description]

\* C22: the tags of every structured draft are the classifier's tags for the
\* draft's own name and description (title, placeholder and desc included)
\* and the target category.
C22_TagsFromResolvedText ==
    \A k \in 1..Len(walk.items) :
       TagSet(walk.items[k].tags) =
          TagSet(determineTags(Resolved(walk.items[k]), walk.menuType))

\* restricted to records whose name and description fields are the ones the
\* draft carries, the tags do come from the draft's text
C22_TagsFromRawFields ==
    \A k \in 1..Len(walk.items) :
       /\ Truthy(RecordOf(k).name)
       /\ Truthy(RecordOf(k).description) \/ ~Truthy(RecordOf(k).desc)
       => TagSet(walk.items[k].tags) =
             TagSet(determineTags(Resolved(walk.items[k]), walk.menuType))

\* ---------------------------------------------------------------- C23
\* character c is letter l (lower case) written in either case
SameLetter(c, l) ==
    c = l \/ \E k \in 1..26 : LowerChars[k] = l /\ UpperChars[k] = c

\* the text holds keyword w, whatever the case of its letters
ContainsCI(text, w) ==
    \E p \in 1..(Len(text) - Len(w) + 1) :
       \A j \in 1..Len(w) : SameLetter(text[p + j - 1], w[j])

\* the text handed to the classifier: name, a space, the description
ClassifiedText ==
    tagger.item.name[1] \o <<" ">>
    \o (IF tagger.item.description = None THEN <<>>
        ELSE tagger.item.description[1])

AllTags == {"signature", "premium", "reserve", "red", "white", "sparkling",
            "featured", "limited"}

\* rule table: the keywords of a tag ("signature" has none: it is added
\* for its category alone) and the categories it is given in
KeywordsOf(tag) ==
    CASE tag = "signature" -> {}
      [] tag = "premium" -> {<<"p", "r", "e", "m", "i", "u", "m">>, <<"t", "o", "p", " ", "s", "h", "e", "l", "f">>}
      [] tag = "reserve" -> {<<"r", "e", "s", "e", "r", "v", "e">>, <<"v", "i", "n", "t", "a", "g", "e">>}
      [] tag = "red" -> {<<"r", "e", "d">>}
      [] tag = "white" -> {<<"w", "h", "i", "t", "e">>}
      [] tag = "sparkling" -> {<<"s", "p", "a", "r", "k", "l", "i", "n", "g">>,
                               <<"c", "h", "a", "m", "p", "a", "g", "n", "e">>}
      [] tag = "featured" -> {<<"f", "e", "a", "t", "u", "r", "e", "d">>,
                              <<"s", "p", "e", "c", "i", "a", "l">>}
      [] tag = "limited" -> {<<"n", "e", "w">>, <<"l", "i", "m", "i", "t", "e", "d">>}

CategoriesOf(tag) ==
    IF tag \in {"signature", "premium"} THEN {"signature_cocktails"}
    ELSE IF tag \in {"reserve", "red", "white", "sparkling"} THEN {"wine_list"}
    ELSE Categories

TableTags(text, category) ==
    {tag \in AllTags :
        /\ category \in CategoriesOf(tag)
        /\ tag = "signature" \/ \E w \in KeywordsOf(tag) : ContainsCI(text, w)}

\* C23: for every text and category the classifier returns exactly the tags
\* of the rule table, each once; the keyword tests are substring tests that
\* ignore case.
C23_RuleTable ==
    tagger.phase = "returned" =>
       /\ TagSet(tagger.tags) = TableTags(ClassifiedText, tagger.menuType)
       /\ Len(tagger.tags) = Cardinality(TagSet(tagger.tags))

\* "Vintage Champagne" with "brand new Special" on the wine list: four
\* tags, matched through capital letters
C23_Witness ==
    /\ tagger.phase = "returned"
    /\ tagger.menuType = "wine_list"
    /\ tagger.item.name = Some(<<"V", "i", "n", "t", "a", "g", "e", " ", "C", "h", "a", "m", "p", "a", "g", "n", "e">>)
    /\ tagger.item.description = Some(<<"b", "r", "a", "n", "d", " ", "n", "e", "w", " ", "S", "p", "e", "c", "i", "a", "l">>)
    /\ TagSet(tagger.tags) = {"reserve", "sparkling", "featured", "limited"}

\* ---------------------------------------------------------------- C24
\* determineTags has returned for this text (no description) and category
Classified(text, category) ==
    /\ tagger.phase = "returned"
    /\ tagger.item.name = Some(text)
    /\ tagger.item.description = None
    /\ tagger.menuType = category

\* C24 as stated: "Estate Reserve Cabernet" on the wine list is tagged
\* "reserve" and "red"; "simple gin fizz" among the signature cocktails is
\* tagged "signature" and not "premium".
C24_ExamplesAsStated ==
    /\ Classified(EstateReserveCabernet, "wine_list") =>
          {"reserve", "red"} \subseteq TagSet(tagger.tags)
    /\ Classified(SimpleGinFizz, "signature_cocktails") =>
          /\ "signature" \in TagSet(tagger.tags)
          /\ "premium" \notin TagSet(tagger.tags)

\* C24 amended: "Estate Reserve Cabernet" on the wine list is tagged
\* "reserve" and nothing else, so not "red" (the text has no substring
\* "red"); "simple gin fizz" among the signature cocktails is tagged
\* "signature" and not "premium".
C24_ExampleTags ==
    /\ Classified(EstateReserveCabernet, "wine_list") =>
          TagSet(tagger.tags) = {"reserve"}
    /\ Classified(SimpleGinFizz, "signature_cocktails") =>
          /\ "signature" \in TagSet(tagger.tags)
          /\ "premium" \notin TagSet(tagger.tags)

C24_Witness ==
    /\ Classified(EstateReserveCabernet, "wine_list")
    /\ tagger.tags = <<"reserve">>

\* ---------------------------------------------------------------- C25
\* absent, or a finite number that is not negative
AbsentOrNonNegative(price) ==
    price = None \/ (IsFinite(price[1]) /\ price[1] >= 0)

\* C25: every draft has a price that is absent or a finite non-negative
\* number, whatever the record gave as price (a number, negative and
\* non-finite ones included, a string, or nothing).
C25_PriceAbsentOrNonNegative ==
    \A k \in 1..Len(walk.items) : AbsentOrNonNegative(walk.items[k].price)

\* the drafts whose record gave no number as price do satisfy it
C25_NonNumericPrices ==
    \A k \in 1..Len(walk.items) :
       RecordOf(k).price.t # "num" => AbsentOrNonNegative(walk.items[k].price)

\* the drafts of the text path satisfy it
C25_TextPrices ==
    /\ \A k \in 1..Len(loop.items) : AbsentOrNonNegative(loop.items[k].price)
    /\ loop.currentItem # None => AbsentOrNonNegative(loop.currentItem[1].price)

\* ---------------------------------------------------------------- C26
\* the characters of s that are digits or periods, in order
RECURSIVE DigitsAndPeriods(_)
DigitsAndPeriods(s) ==
    IF s = <<>> THEN <<>>
    ELSE IF Head(s) \in {"0", "1", "2", "3", "4", "5", "6", "7", "8", "9", "."}
    THEN <<Head(s)>> \o DigitsAndPeriods(Tail(s))
    ELSE DigitsAndPeriods(Tail(s))

\* number of digits c begins with from position p on
LeadingDigits(c, p) ==
    CHOOSE n \in 0..(Len(c) - p + 1) :
       /\ \A i \in p..(p + n - 1) : IsDigit(c[i])
       /\ p + n > Len(c) \/ ~IsDigit(c[p + n])

RECURSIVE Pow10(_)
Pow10(k) == IF k = 0 THEN 1 ELSE 10 * Pow10(k - 1)

RECURSIVE Weighted(_, _, _)
\* the digits c[p..p+n-1] read as a decimal numeral
Weighted(c, p, n) ==
    IF n = 0 THEN 0
    ELSE DigitValue(c[p]) * Pow10(n - 1) + Weighted(c, p + 1, n - 1)

\* the decimal number a string of digits and periods begins with, in
\* hundredths; None where it begins with none
DecimalPrefix(c) ==
    LET n == LeadingDigits(c, 1)
        dot == n < Len(c) /\ c[n + 1] = "."
        m == IF dot THEN LeadingDigits(c, n + 2) ELSE 0
    IN  IF n = 0 /\ m = 0 THEN None
        ELSE Some(100 * Weighted(c, 1, n)
                  + (IF m = 0 THEN 0
                     ELSE IF m = 1 THEN 10 * DigitValue(c[n + 2])
                     ELSE Weighted(c, n + 2, 2)))

PriceReturned(priceStr) == pricer.phase = "returned" /\ pricer.priceStr = priceStr

\* C26: a number is returned unchanged, 0 included; an absent or empty
\* input gives absent; a string gives the number read from its digits and
\* periods, or absent when they begin with no number; "$14.00" gives 14.00,
\* "" absent, 12 gives 12, "N/A" absent, "$1,234.50" gives 1234.50.
C26_PriceNormalizer ==
    /\ pricer.phase = "returned" =>
         pricer.result =
            IF pricer.priceStr.t = "num" THEN Some(pricer.priceStr.n)
            ELSE IF pricer.priceStr.t = "undef" THEN None
            ELSE DecimalPrefix(DigitsAndPeriods(pricer.priceStr.s))
    /\ PriceReturned(JsNum(0)) => pricer.result = Some(0)
    /\ PriceReturned(JsNum(1200)) => pricer.result = Some(1200)
    /\ PriceReturned(JsStr(<<>>)) => pricer.result = None
    /\ PriceReturned(JsStr(<<"$", "1", "4", ".", "0", "0">>)) =>
         pricer.result = Some(1400)
    /\ PriceReturned(JsStr(<<"N", "/", "A">>)) => pricer.result = None
    /\ PriceReturned(JsStr(<<"$", "1", ",", "2", "3", "4", ".", "5", "0">>)) =>
         pricer.result = Some(123450)

\* "$1,234.50" has been normalised to 1234.50
C26_Witness ==
    /\ PriceReturned(JsStr(<<"$", "1", ",", "2", "3", "4", ".", "5", "0">>))
    /\ pricer.result = Some(123450)

\* ---------------------------------------------------------------- C27
\* C27: an ingestion request, whatever its outcome, notifies the alert
\* collaborator at most once.
C27_AtMostOneAlert ==
    \A r \in Requests : req[r].alertCalls <= 1

\* a request sends no alert unless it ends in a server error, never more
\* than three, and at least two when the recognition call has failed
C27_AlertCounts ==
    \A r \in Requests :
       /\ req[r].alertCalls <= 3
       /\ req[r].pc = "done" /\ req[r].res.status < 500 => req[r].alertCalls = 0
       /\ req[r].pc = "done" /\ RecognitionFailed(req[r]) => req[r].alertCalls >= 2

\* ---------------------------------------------------------------- C28
\* C28: once login has completed successfully and logout has not been
\* called, the store holds the user and the token of that login and
\* localStorage holds its auth_token, also when a checkAuth that began
\* before the login finishes afterwards.
C28_LoginSurvivesCheckAuth ==
    authStore.calls.login.pc = "done" /\ authStore.calls.logout.pc = "idle"
    => /\ authStore.user = Some("u1")
       /\ authStore.token = Some("t1")
       /\ authStore.localStorage.auth_token = Some("t1")

\* as long as the checkAuth begun at creation has not settled after the
\* login, the login's session is in place
C28_UntilCheckAuthSettles ==
    [][/\ authStore.calls.login.pc = "done"
       /\ authStore.calls.logout.pc = "idle"
       /\ authStore.token = Some("t1")
       /\ authStore'.calls.logout.pc = "idle"
       /\ authStore'.calls.checkAuth = authStore.calls.checkAuth
       => /\ authStore'.user = Some("u1")
          /\ authStore'.token = Some("t1")
          /\ authStore'.localStorage.auth_token = Some("t1")]_vars

\* ---------------------------------------------------------------- C29
\* C29: logout never rejects, and the step that completes it leaves the
\* store with user, token and error null and isLoading false and
\* localStorage without auth_token, user_data and refresh_token, whether
\* the server request succeeded or failed.
C29_LogoutClearsEverything ==
    /\ [](authStore.calls.logout.pc # "rejected")
    /\ [][authStore.calls.logout.pc = "await"
          /\ authStore'.calls.logout.pc # "await"
          => /\ authStore'.calls.logout.pc = "done"
             /\ authStore'.user = None
             /\ authStore'.token = None
             /\ authStore'.error = None
             /\ authStore'.isLoading = FALSE
             /\ authStore'.localStorage = NoKeys]_vars

\* logout has completed after a rejected login had left its error in the
\* store
C29_Witness ==
    /\ authStore.calls.logout.pc = "done"
    /\ authStore.calls.login.pc = "rejected"
    /\ authStore.calls.checkAuth.pc = "done"
    /\ authStore.user = None /\ authStore.token = None
    /\ authStore.error = None /\ ~authStore.isLoading
    /\ authStore.localStorage = NoKeys

\* ---------------------------------------------------------------- C30
\* the number an identifier ends with
PositionOf(it) == DigitValue(it.id[Len(it.id)])

\* C30: in the text path the identifiers of the emitted items carry
\* consecutive positions in emission order (counted from 0 or from 1), not
\* the indices of the lines the items came from.
C30_FlushOrderPositions ==
    TextReturned =>
       \E base \in {0, 1} :
          \A k \in 1..Len(loop.items) : PositionOf(loop.items[k]) = base + k - 1

\* the position of an identifier is the 0-based index, among the non-blank
\* lines, of the price line that started the item
C30_LineIndexPositions ==
    \A k \in 1..Len(loop.items) :
       /\ PositionOf(loop.items[k]) + 1 \in PriceLines
       /\ loop.items[k].name = NameWithoutPrice(TextLines[PositionOf(loop.items[k]) + 1])
       /\ \E t \in 1..MaxClock :
             loop.items[k].id = MakeId(loop.menuType, "manual", t,
                                       PositionOf(loop.items[k]))

====
